---- MODULE Spec2Model ----
(***************************************************************************)
(* Model of utils/data_fetcher.py: get_stock_info and get_options_chain,   *)
(* their retry loop with exponential backoff, the classification of        *)
(* provider errors from their text, and the collection and filtering of    *)
(* the option tables.                                                      *)
(*                                                                         *)
(* An error text is a sequence of tokens (words joined by single spaces).  *)
(* An optional value (a dict entry, a table cell) is <<>> when it is       *)
(* None/NaN/absent and <<v>> when it holds v.                              *)
(***************************************************************************)
EXTENDS Integers, Sequences, FiniteSets, TLC

VARIABLES
    fn,                  \* the function being executed ("none" before any call)
    args,                \* its arguments
    pc,                  \* position in the function body
    attempt,             \* loop variable of `for attempt in range(max_retries)`
    expirations,         \* get_options_chain: stock.options
    dateIdx,             \* get_options_chain: position of `for date in expirations`
    all_options,         \* get_options_chain: list of collected frames
    last_error_message,  \* module global
    last_error_details,  \* module global
    shown,               \* last update drawn in status_placeholder by this call
    result,              \* value returned by the call
    log,                 \* history: events of the current call, in order
    fetched,             \* history: provider outcome of each date of this attempt
    lastExc              \* history: text of the last exception caught at 74/184

vars == <<fn, args, pc, attempt, expirations, dateIdx, all_options,
          last_error_message, last_error_details, shown, result, log,
          fetched, lastExc>>

----------------------------------------------------------------------------
(* Bounds and input samples *)

MaxRetriesBound == 5

DefaultMaxRetries == 5
DefaultInitialDelay == 10

Tickers == {"AAPL"}
OptionTypes == {"call", "put", "both", "CALL"}
Delays == {0 - 1, 3, DefaultInitialDelay}
RetryCounts == (0 - 1) .. MaxRetriesBound

None == <<>>
Some(v) == <<v>>
IsNone(v) == v = <<>>
Truthy(v) == v # <<>> /\ v[1] # 0

\* error texts the provider (or the sink) can raise
E_TMR == <<"Too Many Requests">>
E_TMR503 == <<"Too Many Requests", "status", "503", "<traceback>">>
E_StatusWord == <<"status", "code", "429">>
E_Code429 == <<"code", "4290", "status", "500">>
E_Timeout == <<"timeout">>
ErrTexts == {E_TMR, E_TMR503, E_StatusWord, E_Code429, E_Timeout}
DateErrTexts == {E_TMR, E_Timeout}
SleepValueError == <<"sleep", "length", "must", "be", "non-negative">>

----------------------------------------------------------------------------
(* Text operations *)

\* number of characters of a token
TokLen(tok) ==
    CASE tok = "Too Many Requests" -> 17
      [] tok = "<traceback>" -> 120
      [] tok = "non-negative" -> 12
      [] tok \in {"status", "length"} -> 6
      [] tok = "timeout" -> 7
      [] tok \in {"code", "must", "4290"} -> 4
      [] tok = "sleep" -> 5
      [] tok = "be" -> 2
      [] OTHER -> 3

\* str.isdigit() on a token, i.e. the token matches [0-9]+
IsDigits(tok) == tok \in {"429", "500", "503", "4290"}

\* `sub in tok` for a token
TokContains(tok, sub) ==
    \/ tok = sub
    \/ sub = "429" /\ tok = "4290"

\* `sub in error_str`
Contains(text, sub) == \E i \in 1..Len(text) : TokContains(text[i], sub)

\* len(error_str)
RECURSIVE CharLen(_)
CharLen(text) ==
    IF text = <<>> THEN 0
    ELSE TokLen(Head(text)) + (IF Len(text) > 1 THEN 1 ELSE 0) + CharLen(Tail(text))

\* error_str[:n]: the whole tokens that fit and the number of characters
\* kept after them (separator included)
Slice(text, n) ==
    LET fits == {k \in 0..Len(text) : CharLen(SubSeq(text, 1, k)) <= n}
        k == CHOOSE j \in fits : \A i \in fits : i <= j
    IN  [toks |-> SubSeq(text, 1, k),
         cut  |-> IF k = Len(text) THEN 0 ELSE n - CharLen(SubSeq(text, 1, k))]

\* variant: the text is not cut
ErrorSummary_Whole(error_str) ==
    [prefix |-> "Yahoo Finance API Error: ",
     body |-> [toks |-> error_str, cut |-> 0], suffix |-> "..."]

\* f"Yahoo Finance API Error: {error_str[:100]}..."
ErrorSummary(error_str) ==
    [prefix |-> "Yahoo Finance API Error: ", body |-> Slice(error_str, 100), suffix |-> "..."]

NoSummary == [prefix |-> "", body |-> [toks |-> <<>>, cut |-> 0], suffix |-> ""]

\* "Too Many Requests" in error_str or "429" in error_str
IsRateLimit(error_str) ==
    Contains(error_str, "Too Many Requests") \/ Contains(error_str, "429")

\* variant: the first number found anywhere in the text
HttpCode_FirstNumber(error_str) ==
    LET hits == {i \in 1..Len(error_str) : IsDigits(error_str[i])}
    IN  IF hits # {}
        THEN error_str[CHOOSE i \in hits : \A j \in hits : i <= j]
        ELSE "Unknown"

\* re.search(r'status ([0-9]+)', error_str).group(1): the digits after the
\* leftmost "status " that is followed by a digit
HttpCode(error_str) ==
    LET hits == {i \in 1..(Len(error_str) - 1) :
                    error_str[i] = "status" /\ IsDigits(error_str[i + 1])}
    IN  IF Contains(error_str, "status") /\ hits # {}
        THEN error_str[(CHOOSE i \in hits : \A j \in hits : i <= j) + 1]
        ELSE "Unknown"

----------------------------------------------------------------------------
(* Provider data *)

\* stock.info: an empty dict, or a dict whose entries may be absent/None
EmptyInfo ==
    [empty |-> TRUE, regularMarketPrice |-> None, currentPrice |-> None,
     previousClose |-> None, longName |-> None, currency |-> None, marketCap |-> None]

Infos ==
    {EmptyInfo} \cup
    [empty : {FALSE},
     regularMarketPrice : {None, Some(0), Some(151)},
     currentPrice : {None, Some(0), Some(150)},
     previousClose : {None, Some(0), Some(149)},
     longName : {None, Some("Apple Inc.")},
     currency : {None},
     marketCap : {None}]
    \cup
    [empty : {FALSE}, regularMarketPrice : {None}, currentPrice : {None},
     previousClose : {None}, longName : {None}, currency : {Some("EUR")},
     marketCap : {Some(7)}]

\* rows of the option tables of one expiration date
R_good     == [strike |-> Some(100), lastPrice |-> Some(2), bid |-> Some(1), ask |-> Some(2)]
R_good2    == [strike |-> Some(90),  lastPrice |-> Some(1), bid |-> Some(0), ask |-> Some(1)]
R_untraded == [strike |-> Some(95),  lastPrice |-> Some(0), bid |-> Some(1), ask |-> Some(2)]
R_nolast   == [strike |-> Some(85),  lastPrice |-> None,    bid |-> Some(1), ask |-> Some(2)]
R_nostrike == [strike |-> None,      lastPrice |-> Some(3), bid |-> Some(1), ask |-> Some(2)]
R_nobid    == [strike |-> Some(80),  lastPrice |-> Some(4), bid |-> None,    ask |-> Some(2)]
R_noask    == [strike |-> Some(75),  lastPrice |-> Some(5), bid |-> Some(1), ask |-> None]

SampleTables ==
    { <<>>,
      <<R_good, R_untraded, R_noask, R_good2>>,
      <<R_nobid, R_nolast, R_nostrike>> }

\* stock.option_chain(date): the calls table and the puts table
SampleChains == [calls : SampleTables, puts : SampleTables]

D1 == "2026-12-18"
D2 == "2027-01-15"
ExpirationLists == { <<>>, <<D1>>, <<D1, D2>> }

----------------------------------------------------------------------------
(* Returned values *)

NoQuote == [name |-> None, current_price |-> None, currency |-> None, market_cap |-> None]

NoResult ==
    [kind |-> "none", error |-> "", arg |-> "", details |-> "", text |-> <<>>,
     quote |-> NoQuote, rows |-> <<>>]

\* {"error": ..., "details": ...}; arg is the value formatted into the
\* message, text the error text formatted into the details
ErrorResult(msg, arg, details, text) ==
    [NoResult EXCEPT !.kind = "error", !.error = msg, !.arg = arg,
                     !.details = details, !.text = text]

QuoteResult(q) == [NoResult EXCEPT !.kind = "quote", !.quote = q]

ChainResult(rows) == [NoResult EXCEPT !.kind = "chain", !.rows = rows]

\* an exception leaving the function
Raised(text) == [NoResult EXCEPT !.kind = "raised", !.text = text]

\* info.get(key, default)
GetOr(v, default) == IF IsNone(v) THEN Some(default) ELSE v

\* variant: previousClose is tried before currentPrice
CurrentPrice_CloseFirst(info) ==
    IF Truthy(info.regularMarketPrice) THEN info.regularMarketPrice
    ELSE IF Truthy(info.previousClose) THEN info.previousClose
    ELSE info.currentPrice

\* lines 53-61: the first truthy value among the price sources
CurrentPrice(info) ==
    IF Truthy(info.regularMarketPrice) THEN info.regularMarketPrice
    ELSE IF Truthy(info.currentPrice) THEN info.currentPrice
    ELSE info.previousClose

\* lines 48-73 of get_stock_info: the value returned for a provider record
StockResult(ticker, info) ==
    IF info.empty
    THEN ErrorResult("No information found for ticker", ticker,
                     "The ticker could not be found or returned no data.", <<>>)
    ELSE IF ~Truthy(CurrentPrice(info))
    THEN ErrorResult("Warning: Could not fetch price for", ticker,
                     "Price data is not available for this ticker symbol.", <<>>)
    ELSE QuoteResult([name |-> GetOr(info.longName, "N/A"),
                      current_price |-> CurrentPrice(info),
                      currency |-> GetOr(info.currency, "USD"),
                      market_cap |-> GetOr(info.marketCap, 0)])

\* line 101 / line 214
MaxRetriesExceeded(f) ==
    ErrorResult("Maximum retries exceeded", "",
                IF f = "get_stock_info"
                THEN "Failed to fetch stock data after multiple attempts due to persistent errors."
                ELSE "Failed to fetch options data after multiple attempts.", <<>>)

\* lines 94-97 / 206-209
RateLimitedResult(f, error_str) ==
    IF f = "get_stock_info"
    THEN ErrorResult("We're experiencing high traffic (HTTP {http_code}). Please try again in a few minutes.",
                     HttpCode(error_str),
                     "Error: {error_str} Yahoo Finance is rate limiting our requests.", error_str)
    ELSE ErrorResult("Data retrieval rate limit exceeded (HTTP {http_code})",
                     HttpCode(error_str),
                     "Error: {error_str} The Yahoo Finance API is limiting our requests. Please try again in a few minutes.",
                     error_str)

\* variant: the details are a fixed sentence instead of the error text
FailedResult_Generic(f, ticker, error_str) ==
    IF f = "get_stock_info"
    THEN ErrorResult("Failed to retrieve stock data for", ticker,
                     "Failed to fetch stock data.", <<>>)
    ELSE ErrorResult("Failed to retrieve options data", "",
                     "Failed to fetch options data.", <<>>)

\* line 100 / line 213
FailedResult(f, ticker, error_str) ==
    IF f = "get_stock_info"
    THEN ErrorResult("Failed to retrieve stock data for", ticker, "{error_str}", error_str)
    ELSE ErrorResult("Failed to retrieve options data", "", "{error_str}", error_str)

----------------------------------------------------------------------------
(* Option tables *)

\* calls['lastPrice'] > 0 (NaN > 0 is False)
Traded(row) == ~IsNone(row.lastPrice) /\ row.lastPrice[1] > 0

Complete(row) ==
    ~IsNone(row.strike) /\ ~IsNone(row.lastPrice) /\ ~IsNone(row.bid) /\ ~IsNone(row.ask)

\* lines 151-154 / 158-161: tag every row, keep the rows with lastPrice > 0
Tag(table, type, date) ==
    [i \in 1..Len(table) |->
        [strike |-> table[i].strike, lastPrice |-> table[i].lastPrice,
         bid |-> table[i].bid, ask |-> table[i].ask,
         optionType |-> type, expirationDate |-> date]]

Collect(table, type, date) == SelectSeq(Tag(table, type, date), Traded)

\* lines 150-162: the frames appended for one date
FramesOf(opt, option_type, date) ==
    (IF option_type \in {"call", "both"} THEN <<Collect(opt.calls, "CALL", date)>> ELSE <<>>)
    \o
    (IF option_type \in {"put", "both"} THEN <<Collect(opt.puts, "PUT", date)>> ELSE <<>>)

\* pd.concat(frames)
RECURSIVE Concat(_)
Concat(frames) == IF frames = <<>> THEN <<>> ELSE Head(frames) \o Concat(Tail(frames))

\* variant: 'ask' is missing from the subset
DropNa_NoAsk(rows) ==
    SelectSeq(rows, LAMBDA row : ~IsNone(row.strike) /\ ~IsNone(row.lastPrice) /\ ~IsNone(row.bid))

\* .dropna(subset=['strike', 'lastPrice', 'bid', 'ask'])
DropNa(rows) == SelectSeq(rows, Complete)

\* variant: one message for both empty outcomes
ChainResultOf_OneMessage(ticker, frames) ==
    IF frames = <<>> \/ DropNa(Concat(frames)) = <<>>
    THEN ErrorResult("No valid options data found", ticker,
                     "Could not retrieve any valid options data for {ticker}.", <<>>)
    ELSE ChainResult(DropNa(Concat(frames)))

\* lines 168-182: the value returned once every date was visited
ChainResultOf(ticker, frames) ==
    IF frames = <<>>
    THEN ErrorResult("No valid options data found", ticker,
                     "Could not retrieve any valid options data for {ticker}.", <<>>)
    ELSE IF DropNa(Concat(frames)) = <<>>
    THEN ErrorResult("No valid options data after filtering", "",
                     "Data was retrieved but contained no valid options after filtering.", <<>>)
    ELSE ChainResult(DropNa(Concat(frames)))

----------------------------------------------------------------------------
(* State after import of the module: no call made yet *)

NoArgs ==
    [ticker |-> "", option_type |-> "", max_retries |-> 0, initial_delay |-> 0,
     status_placeholder |-> FALSE]

NoUpdate ==
    [retry |-> 0, of |-> 0, wait |-> 0, message |-> NoSummary, details |-> <<>>,
     num |-> 0, den |-> 1]

Event(e, n, src, rl) == [e |-> e, n |-> n, src |-> src, rl |-> rl]

Init ==
    /\ fn = "none"
    /\ args = NoArgs
    /\ pc = "idle"
    /\ attempt = 0
    /\ expirations = <<>>
    /\ dateIdx = 0
    /\ all_options = <<>>
    /\ last_error_message = NoSummary
    /\ last_error_details = <<>>
    /\ shown = NoUpdate
    /\ result = NoResult
    /\ log = <<>>
    /\ fetched = <<>>
    /\ lastExc = <<>>

----------------------------------------------------------------------------
(* The retry loop *)

\* 2 ** attempt
RECURSIVE Pow2(_)
Pow2(n) == IF n <= 0 THEN 1 ELSE 2 * Pow2(n - 1)

\* line 21 / line 112
WaitTime(initial_delay, att) == initial_delay * Pow2(att)

\* variant: the fraction of the attempt about to be made
Progress_NextAttempt(att, max_retries) ==
    IF (att + 1) * 100 <= 99 * max_retries
    THEN [num |-> att + 1, den |-> max_retries]
    ELSE [num |-> 99, den |-> 100]

\* line 39 / line 130: min(0.99, attempt / max_retries) as a fraction
Progress(att, max_retries) ==
    IF att * 100 <= 99 * max_retries
    THEN [num |-> att, den |-> max_retries]
    ELSE [num |-> 99, den |-> 100]

\* variant: the bar starts from zero at the first retry
Update_FromZero(att) ==
    [retry |-> att + 1, of |-> args.max_retries,
     wait |-> WaitTime(args.initial_delay, att),
     message |-> last_error_message, details |-> last_error_details,
     num |-> Progress(att - 1, args.max_retries).num,
     den |-> Progress(att - 1, args.max_retries).den]

\* lines 27-40 / 118-131: what the status placeholder shows
Update(att) ==
    [retry |-> att + 1, of |-> args.max_retries,
     wait |-> WaitTime(args.initial_delay, att),
     message |-> last_error_message, details |-> last_error_details,
     num |-> Progress(att, args.max_retries).num,
     den |-> Progress(att, args.max_retries).den]

\* a call starts: the locals are fresh, the globals keep their values
Enter(f, a) ==
    /\ pc = "idle"
    /\ fn' = f
    /\ args' = a
    /\ pc' = "for"
    /\ attempt' = 0
    /\ expirations' = <<>>
    /\ dateIdx' = 0
    /\ all_options' = <<>>
    /\ shown' = NoUpdate
    /\ result' = NoResult
    /\ log' = <<>>
    /\ fetched' = <<>>
    /\ lastExc' = <<>>
    /\ UNCHANGED <<last_error_message, last_error_details>>

\* line 12
Call_get_stock_info ==
    \E t \in Tickers, m \in RetryCounts, d \in Delays, sp \in BOOLEAN :
        Enter("get_stock_info",
              [ticker |-> t, option_type |-> "", max_retries |-> m,
               initial_delay |-> d, status_placeholder |-> sp])

\* line 103
Call_get_options_chain ==
    \E t \in Tickers, o \in OptionTypes, m \in RetryCounts, d \in Delays, sp \in BOOLEAN :
        Enter("get_options_chain",
              [ticker |-> t, option_type |-> o, max_retries |-> m,
               initial_delay |-> d, status_placeholder |-> sp])

\* line 18 / 109 with line 20 / 111 and line 101 / 214: the next iteration
\* of the for loop, or the return after the loop
ForAttempt ==
    /\ pc = "for"
    /\ IF attempt < args.max_retries
       THEN /\ pc' = IF attempt > 0 THEN "backoff" ELSE "fetch"
            /\ UNCHANGED result
       ELSE /\ pc' = "done"
            /\ result' = MaxRetriesExceeded(fn)
    /\ UNCHANGED <<fn, args, attempt, expirations, dateIdx, all_options,
                   last_error_message, last_error_details, shown, log,
                   fetched, lastExc>>

\* variant: every caught error is retried while attempts remain
Except_RetryAny(error_str) ==
    /\ last_error_message' = ErrorSummary(error_str)
    /\ last_error_details' = error_str
    /\ IF attempt = args.max_retries - 1
       THEN /\ pc' = "done"
            /\ result' = IF IsRateLimit(error_str)
                         THEN RateLimitedResult(fn, error_str)
                         ELSE FailedResult(fn, args.ticker, error_str)
            /\ UNCHANGED attempt
       ELSE /\ pc' = "for"
            /\ attempt' = attempt + 1
            /\ UNCHANGED result

\* variant: an error that is not rate-limited is raised again
Except_Reraise(error_str) ==
    /\ last_error_message' = ErrorSummary(error_str)
    /\ last_error_details' = error_str
    /\ IF IsRateLimit(error_str)
       THEN IF attempt = args.max_retries - 1
            THEN /\ pc' = "done"
                 /\ result' = RateLimitedResult(fn, error_str)
                 /\ UNCHANGED attempt
            ELSE /\ pc' = "for"
                 /\ attempt' = attempt + 1
                 /\ UNCHANGED result
       ELSE /\ pc' = "done"
            /\ result' = Raised(error_str)
            /\ UNCHANGED attempt

\* variant: a rate-limit error is retried without the test for the last
\* attempt
Except_AlwaysContinue(error_str) ==
    /\ last_error_message' = ErrorSummary(error_str)
    /\ last_error_details' = error_str
    /\ IF IsRateLimit(error_str)
       THEN /\ pc' = "for"
            /\ attempt' = attempt + 1
            /\ UNCHANGED result
       ELSE /\ pc' = "done"
            /\ result' = FailedResult(fn, args.ticker, error_str)
            /\ UNCHANGED attempt

\* lines 74-100 / 184-213: the handler of the outer try, for an exception
\* with text error_str raised in iteration `attempt`
Except(error_str) ==
    /\ last_error_message' = ErrorSummary(error_str)
    /\ last_error_details' = error_str
    /\ IF IsRateLimit(error_str)
       THEN IF attempt = args.max_retries - 1
            THEN /\ pc' = "done"
                 /\ result' = RateLimitedResult(fn, error_str)
                 /\ UNCHANGED attempt
            ELSE /\ pc' = "for"
                 /\ attempt' = attempt + 1
                 /\ UNCHANGED result
       ELSE /\ pc' = "done"
            /\ result' = FailedResult(fn, args.ticker, error_str)
            /\ UNCHANGED attempt

\* lines 25-40 / 116-131: the status placeholder raises while it is updated
BackoffSinkRaises ==
    /\ pc = "backoff"
    /\ args.status_placeholder
    /\ \E e \in ErrTexts :
        /\ log' = Append(log, Event("raise", attempt + 1, "sink", IsRateLimit(e)))
        /\ lastExc' = e
        /\ Except(e)
    /\ UNCHANGED <<fn, args, expirations, dateIdx, all_options, shown, fetched>>

\* lines 21-42 / 112-133: the update is shown when there is a placeholder,
\* then time.sleep(wait_time) - which raises ValueError on a negative time
Backoff ==
    /\ pc = "backoff"
    /\ LET wait_time == WaitTime(args.initial_delay, attempt)
           shownLog == IF args.status_placeholder
                       THEN Append(log, Event("progress", attempt + 1, "", FALSE))
                       ELSE log
       IN  /\ shown' = IF args.status_placeholder THEN Update(attempt) ELSE shown
           /\ IF wait_time < 0
              THEN /\ log' = Append(shownLog, Event("raise", attempt + 1, "sleep", FALSE))
                   /\ lastExc' = SleepValueError
                   /\ Except(SleepValueError)
              ELSE /\ log' = Append(shownLog, Event("sleep", wait_time, "", FALSE))
                   /\ pc' = "fetch"
                   /\ UNCHANGED <<attempt, result, last_error_message,
                                  last_error_details, lastExc>>
    /\ UNCHANGED <<fn, args, expirations, dateIdx, all_options, fetched>>

----------------------------------------------------------------------------
(* get_stock_info: one provider attempt *)

\* lines 44-45: stock.info raises
StockInfoRaises ==
    /\ pc = "fetch"
    /\ fn = "get_stock_info"
    /\ \E e \in ErrTexts :
        /\ log' = log \o <<Event("attempt", attempt + 1, "", FALSE),
                           Event("raise", attempt + 1, "provider", IsRateLimit(e))>>
        /\ lastExc' = e
        /\ Except(e)
    /\ UNCHANGED <<fn, args, expirations, dateIdx, all_options, shown, fetched>>

\* variant: a call that gets an answer clears the stored error
StockInfoReturns_Clears ==
    /\ pc = "fetch"
    /\ fn = "get_stock_info"
    /\ \E info \in Infos :
        /\ result' = StockResult(args.ticker, info)
        /\ fetched' = <<info>>
    /\ log' = Append(log, Event("attempt", attempt + 1, "", FALSE))
    /\ pc' = "done"
    /\ last_error_message' = NoSummary
    /\ last_error_details' = <<>>
    /\ UNCHANGED <<fn, args, attempt, expirations, dateIdx, all_options,
                   shown, lastExc>>

\* lines 44-73: stock.info answers; every outcome returns
StockInfoReturns ==
    /\ pc = "fetch"
    /\ fn = "get_stock_info"
    /\ \E info \in Infos :
        /\ result' = StockResult(args.ticker, info)
        /\ fetched' = <<info>>
    /\ log' = Append(log, Event("attempt", attempt + 1, "", FALSE))
    /\ pc' = "done"
    /\ UNCHANGED <<fn, args, attempt, expirations, dateIdx, all_options,
                   last_error_message, last_error_details, shown, lastExc>>

----------------------------------------------------------------------------
(* get_options_chain: one provider attempt *)

\* lines 135-136: stock.options raises
ExpirationsRaise ==
    /\ pc = "fetch"
    /\ fn = "get_options_chain"
    /\ \E e \in ErrTexts :
        /\ log' = log \o <<Event("attempt", attempt + 1, "", FALSE),
                           Event("raise", attempt + 1, "provider", IsRateLimit(e))>>
        /\ lastExc' = e
        /\ Except(e)
    /\ UNCHANGED <<fn, args, expirations, dateIdx, all_options, shown, fetched>>

\* lines 135-145: stock.options answers; an empty list returns the error,
\* otherwise the loop over the dates starts with all_options = []
ListExpirations ==
    /\ pc = "fetch"
    /\ fn = "get_options_chain"
    /\ \E exps \in ExpirationLists :
        /\ expirations' = exps
        /\ IF exps = <<>>
           THEN /\ pc' = "done"
                /\ result' = ErrorResult("No options expirations found for", args.ticker,
                                         "No options data available for this ticker symbol.", <<>>)
           ELSE /\ pc' = "dates"
                /\ UNCHANGED result
    /\ dateIdx' = 1
    /\ all_options' = <<>>
    /\ fetched' = <<>>
    /\ log' = Append(log, Event("attempt", attempt + 1, "", FALSE))
    /\ UNCHANGED <<fn, args, attempt, last_error_message, last_error_details,
                   shown, lastExc>>

\* variant: without the inner try, the error of a date reaches the outer
\* handler
DateRaises_Abort ==
    /\ pc = "dates"
    /\ dateIdx <= Len(expirations)
    /\ \E e \in DateErrTexts :
        /\ fetched' = Append(fetched, [date |-> expirations[dateIdx], ok |-> FALSE,
                                       calls |-> <<>>, puts |-> <<>>, text |-> e])
        /\ log' = Append(log, Event("date_error", dateIdx, "provider", IsRateLimit(e)))
        /\ lastExc' = e
        /\ Except(e)
    /\ UNCHANGED <<fn, args, expirations, dateIdx, all_options, shown>>

\* lines 146-148, 164-166: stock.option_chain(date) raises; the date is
\* skipped, whatever the text of the error
DateRaises ==
    /\ pc = "dates"
    /\ dateIdx <= Len(expirations)
    /\ \E e \in DateErrTexts :
        /\ fetched' = Append(fetched, [date |-> expirations[dateIdx], ok |-> FALSE,
                                       calls |-> <<>>, puts |-> <<>>, text |-> e])
        /\ log' = Append(log, Event("date_error", dateIdx, "provider", IsRateLimit(e)))
    /\ dateIdx' = dateIdx + 1
    /\ UNCHANGED <<fn, args, pc, attempt, expirations, all_options,
                   last_error_message, last_error_details, shown, result, lastExc>>

\* lines 146-162: stock.option_chain(date) answers; the frames of the
\* requested types are appended
DateFetched ==
    /\ pc = "dates"
    /\ dateIdx <= Len(expirations)
    /\ \E opt \in SampleChains :
        /\ fetched' = Append(fetched, [date |-> expirations[dateIdx], ok |-> TRUE,
                                       calls |-> opt.calls, puts |-> opt.puts, text |-> <<>>])
        /\ all_options' = all_options \o FramesOf(opt, args.option_type, expirations[dateIdx])
    /\ dateIdx' = dateIdx + 1
    /\ UNCHANGED <<fn, args, pc, attempt, expirations, last_error_message,
                   last_error_details, shown, result, log, lastExc>>

\* lines 168-182: after the last date
CombineOptions ==
    /\ pc = "dates"
    /\ dateIdx > Len(expirations)
    /\ result' = ChainResultOf(args.ticker, all_options)
    /\ pc' = "done"
    /\ UNCHANGED <<fn, args, attempt, expirations, dateIdx, all_options,
                   last_error_message, last_error_details, shown, log,
                   fetched, lastExc>>

\* the call has returned: its frame is dropped, the globals stay
Return ==
    /\ pc = "done"
    /\ fn' = "none"
    /\ args' = NoArgs
    /\ pc' = "idle"
    /\ attempt' = 0
    /\ expirations' = <<>>
    /\ dateIdx' = 0
    /\ all_options' = <<>>
    /\ shown' = NoUpdate
    /\ result' = NoResult
    /\ log' = <<>>
    /\ fetched' = <<>>
    /\ lastExc' = <<>>
    /\ UNCHANGED <<last_error_message, last_error_details>>

----------------------------------------------------------------------------
Next ==
    \/ Call_get_stock_info
    \/ Call_get_options_chain
    \/ ForAttempt
    \/ BackoffSinkRaises
    \/ Backoff
    \/ StockInfoRaises
    \/ StockInfoReturns
    \/ ExpirationsRaise
    \/ ListExpirations
    \/ DateRaises
    \/ DateFetched
    \/ CombineOptions
    \/ Return

Spec == Init /\ [][Next]_vars

----------------------------------------------------------------------------
(* Reading the history of a call *)

EventIdx(e) == {i \in 1..Len(log) : log[i].e = e}

\* number of provider attempts made so far by the call
NAttempts == Cardinality(EventIdx("attempt"))

\* the waits slept so far by the call, in order
RECURSIVE WaitsOf(_)
WaitsOf(events) ==
    IF events = <<>> THEN <<>>
    ELSE (IF Head(events).e = "sleep" THEN <<Head(events).n>> ELSE <<>>) \o WaitsOf(Tail(events))

\* the provider attempt logged at position i raised a rate-limit error
AttemptRateLimited(i) ==
    /\ i < Len(log)
    /\ log[i + 1].e = "raise"
    /\ log[i + 1].src = "provider"
    /\ log[i + 1].rl

\* the call has returned after max_retries provider attempts that all
\* failed with a rate-limit error
AllAttemptsRateLimited ==
    /\ pc = "done"
    /\ args.max_retries >= 1
    /\ NAttempts = args.max_retries
    /\ \A i \in EventIdx("attempt") : AttemptRateLimited(i)

\* the error texts that contain "Too Many Requests" or "429", listed
RateLimitTexts == {E_TMR, E_TMR503, E_StatusWord, E_Code429}

\* the HTTP code after "status " in each error text, listed
ListedCode(text) ==
    CASE text = E_TMR503 -> "503"
      [] text = E_Code429 -> "500"
      [] OTHER -> "Unknown"

RateLimitMessage(f) ==
    IF f = "get_stock_info"
    THEN "We're experiencing high traffic (HTTP {http_code}). Please try again in a few minutes."
    ELSE "Data retrieval rate limit exceeded (HTTP {http_code})"

FailedMessage(f) ==
    IF f = "get_stock_info"
    THEN "Failed to retrieve stock data for"
    ELSE "Failed to retrieve options data"

----------------------------------------------------------------------------
(* C1 *)

\* C1: under continuous rate limiting with initial_delay=10 and
\* max_retries=5 the sleeps are exactly 10, 20, 40, 80, one immediately
\* before each of attempts 2..5 and none before attempt 1; in general the
\* first retry waits initial_delay and each later retry twice the previous
\* wait.
C1_SleepSchedule ==
    /\ (AllAttemptsRateLimited /\ args.max_retries = DefaultMaxRetries
            /\ args.initial_delay = DefaultInitialDelay)
        => WaitsOf(log) = <<10, 20, 40, 80>>
    /\ \A i \in EventIdx("attempt") :
        IF log[i].n = 1
        THEN EventIdx("sleep") = {}  \/ \A j \in EventIdx("sleep") : j > i
        ELSE i > 1 /\ log[i - 1].e = "sleep"
    /\ LET w == WaitsOf(log)
       IN  /\ w # <<>> => w[1] = args.initial_delay
           /\ \A k \in 1..(Len(w) - 1) : w[k + 1] = 2 * w[k]

----------------------------------------------------------------------------
(* C2 *)

\* C2: for max_retries >= 1 a call makes at least 1 and at most max_retries
\* provider attempts and then returns; a further attempt is made only after
\* every earlier attempt raised an error whose text contains
\* "Too Many Requests" or "429".
C2_Inv ==
    /\ args.max_retries >= 1 => NAttempts <= args.max_retries
    /\ (pc = "done" /\ args.max_retries >= 1) => NAttempts >= 1
    /\ \A i, j \in EventIdx("attempt") : i < j => AttemptRateLimited(i)

\* the loop goes on to another iteration only from a caught error whose
\* text is one of the rate-limit texts
C2_RetryStep ==
    (pc' = "for" /\ pc # "idle") => (lastExc' \in RateLimitTexts /\ attempt' = attempt + 1)

C2_BoundedAttempts ==
    /\ []C2_Inv
    /\ [][C2_RetryStep]_vars
    /\ (pc = "for") ~> (pc = "done")

C2_Witness ==
    /\ pc = "done"
    /\ args.max_retries = 3
    /\ NAttempts = 3
    /\ result.kind \in {"quote", "chain"}

----------------------------------------------------------------------------
(* C3 *)

\* C3: when all max_retries attempts fail with a rate-limit error the call
\* returns, right after the last failed attempt and with no further sleep,
\* the structured rate-limited error whose message carries the code after
\* 'status ' in the last error text, or 'Unknown'; it does not raise and
\* does not return 'Maximum retries exceeded'.
C3_RateLimitedResult ==
    AllAttemptsRateLimited =>
        /\ result.kind = "error"
        /\ result.error = RateLimitMessage(fn)
        /\ result.details # ""
        /\ result.arg = ListedCode(lastExc)
        /\ result.text = lastExc
        /\ log[Len(log)].e = "raise"
        /\ log[Len(log) - 1].e = "attempt"
        /\ log[Len(log) - 1].n = args.max_retries

C3_Witness ==
    /\ AllAttemptsRateLimited
    /\ args.max_retries >= 2
    /\ lastExc = E_Code429
    /\ result.arg = "500"

----------------------------------------------------------------------------
(* C4 *)

\* C4: an attempt that raises an error that is not rate-limited makes the
\* call return at once the 'failed to retrieve' error carrying the raw
\* error text: nothing is attempted or slept after it.
C4_OtherErrorReturns ==
    \A i \in EventIdx("raise") :
        ~log[i].rl =>
            /\ i = Len(log)
            /\ pc = "done"
            /\ lastExc \notin RateLimitTexts
            /\ result.kind = "error"
            /\ result.error = FailedMessage(fn)
            /\ result.text = lastExc
            /\ result.details = "{error_str}"

C4_Witness ==
    /\ pc = "done"
    /\ attempt = 2
    /\ args.max_retries = 5
    /\ log[Len(log)].e = "raise"
    /\ log[Len(log)].src = "provider"
    /\ lastExc = E_Timeout
    /\ result.error = FailedMessage(fn)

----------------------------------------------------------------------------
(* What the provider answered, read from the history *)

\* the last provider attempt of the call was answered (it did not raise)
LastAttemptAnswered ==
    /\ pc = "done"
    /\ EventIdx("attempt") # {}
    /\ LET last == CHOOSE i \in EventIdx("attempt") : \A j \in EventIdx("attempt") : j <= i
       IN  /\ \A j \in (last + 1)..Len(log) : log[j].e = "date_error"
           /\ log[last].n = attempt + 1

\* a price that can be used: present and not zero
Usable(p) == p # None /\ p # Some(0)

PriceSources(info) == <<info.regularMarketPrice, info.currentPrice, info.previousClose>>

\* the option types a request asks for
WantedTypes(option_type) ==
    CASE option_type = "call" -> {"CALL"}
      [] option_type = "put"  -> {"PUT"}
      [] option_type = "both" -> {"CALL", "PUT"}
      [] OTHER -> {}

\* a row a successful result may hold
Qualifies(row) ==
    /\ row.strike # None /\ row.bid # None /\ row.ask # None
    /\ row.lastPrice # None /\ row.lastPrice[1] > 0

RECURSIVE QualifyingRows(_, _, _)
QualifyingRows(table, type, date) ==
    IF table = <<>> THEN <<>>
    ELSE (IF Qualifies(Head(table))
          THEN << [strike |-> Head(table).strike, lastPrice |-> Head(table).lastPrice,
                   bid |-> Head(table).bid, ask |-> Head(table).ask,
                   optionType |-> type, expirationDate |-> date] >>
          ELSE <<>>)
         \o QualifyingRows(Tail(table), type, date)

\* the qualifying rows of the dates whose fetch succeeded, date by date in
\* the order of the provider's list, calls before puts
RECURSIVE ExpectedRows(_, _)
ExpectedRows(outcomes, option_type) ==
    IF outcomes = <<>> THEN <<>>
    ELSE LET f == Head(outcomes)
         IN  (IF f.ok /\ "CALL" \in WantedTypes(option_type)
              THEN QualifyingRows(f.calls, "CALL", f.date) ELSE <<>>)
             \o
             (IF f.ok /\ "PUT" \in WantedTypes(option_type)
              THEN QualifyingRows(f.puts, "PUT", f.date) ELSE <<>>)
             \o ExpectedRows(Tail(outcomes), option_type)

\* no table was collected in the attempt
NothingCollected ==
    \/ WantedTypes(args.option_type) = {}
    \/ \A i \in 1..Len(fetched) : ~fetched[i].ok

----------------------------------------------------------------------------
(* C5 *)

\* C5: each non-exception terminal condition ends the call on the attempt
\* where it is observed, with no retry and no sleep afterwards, with its own
\* message: empty info, no usable price, empty expiration list, nothing
\* collected, nothing left after dropping incomplete rows.
C5_TerminalConditions ==
    /\ (LastAttemptAnswered /\ fn = "get_stock_info") =>
        LET info == fetched[1]
        IN  /\ info.empty <=> result.error = "No information found for ticker"
            /\ (~info.empty /\ \A k \in 1..3 : ~Usable(PriceSources(info)[k]))
                  <=> result.error = "Warning: Could not fetch price for"
            /\ result.error # "" => result.kind = "error" /\ result.details # ""
    /\ (LastAttemptAnswered /\ fn = "get_options_chain") =>
        /\ expirations = <<>> <=> result.error = "No options expirations found for"
        /\ (expirations # <<>> /\ NothingCollected)
              <=> result.error = "No valid options data found"
        /\ (expirations # <<>> /\ ~NothingCollected
                /\ ExpectedRows(fetched, args.option_type) = <<>>)
              <=> result.error = "No valid options data after filtering"
        /\ result.error # "" => result.kind = "error" /\ result.details # ""
    /\ (pc = "done" /\ result.error \in
            {"No information found for ticker", "Warning: Could not fetch price for",
             "No options expirations found for", "No valid options data found",
             "No valid options data after filtering"})
        => LastAttemptAnswered

C5_Witness ==
    /\ pc = "done"
    /\ attempt = 1
    /\ args.max_retries = 4
    /\ result.error = "No valid options data after filtering"
    /\ Len(fetched) = 2
    /\ WaitsOf(log) # <<>>

----------------------------------------------------------------------------
(* C6 *)

\* C6: no exception leaves the fetcher, whatever max_retries >= 0 and
\* whatever the provider, the progress sink or the wait do: get_stock_info
\* returns a Quote or a dict with 'error' and 'details', get_options_chain a
\* contract sequence or such a dict.
C6_NoExceptionEscapes ==
    /\ result.kind # "raised"
    /\ pc = "done" =>
        /\ fn = "get_stock_info" => result.kind \in {"quote", "error"}
        /\ fn = "get_options_chain" => result.kind \in {"chain", "error"}
        /\ result.kind = "error" => result.error # "" /\ result.details # ""
        /\ result.kind = "quote" => result.quote # NoQuote
        /\ result.kind = "chain" => result.rows # <<>>

C6_Witness ==
    /\ pc = "done"
    /\ log # <<>>
    /\ log[Len(log)].e = "raise"
    /\ log[Len(log)].src \in {"sink", "sleep"}
    /\ ~log[Len(log)].rl
    /\ result.kind = "error"

----------------------------------------------------------------------------
(* C7 *)

\* the call returned from an answered attempt of get_stock_info whose info
\* is not empty
QuoteAnswered == LastAttemptAnswered /\ fn = "get_stock_info" /\ ~fetched[1].empty

MissingPrice == result.error = "Warning: Could not fetch price for"

\* C7 as stated: the Quote's current_price is the first non-null value
\* among regularMarketPrice, currentPrice, previousClose; the missing-price
\* error is returned exactly when all three are null; a Quote never has a
\* null or zero current_price.
C7_FirstNonNull ==
    QuoteAnswered =>
        LET src == PriceSources(fetched[1])
        IN  /\ result.kind = "quote" =>
                \E k \in 1..3 : /\ src[k] # None
                                /\ \A j \in 1..(k - 1) : src[j] = None
                                /\ result.quote.current_price = src[k]
            /\ MissingPrice <=> \A k \in 1..3 : src[k] = None
            /\ result.kind = "quote" => Usable(result.quote.current_price)

\* C7 amended: the Quote's current_price is the first value that is neither
\* null nor zero among the three sources in that order; the missing-price
\* error is returned exactly when each of the three is null or zero; a Quote
\* never has a null or zero current_price.
C7_FirstUsable ==
    QuoteAnswered =>
        LET src == PriceSources(fetched[1])
        IN  /\ result.kind = "quote" =>
                \E k \in 1..3 : /\ Usable(src[k])
                                /\ \A j \in 1..(k - 1) : ~Usable(src[j])
                                /\ result.quote.current_price = src[k]
            /\ MissingPrice <=> \A k \in 1..3 : ~Usable(src[k])
            /\ result.kind = "quote" <=> ~MissingPrice
            /\ result.kind = "quote" => Usable(result.quote.current_price)

C7_Witness ==
    /\ QuoteAnswered
    /\ fetched[1].regularMarketPrice = Some(0)
    /\ fetched[1].currentPrice = Some(150)
    /\ fetched[1].previousClose = Some(149)
    /\ result.kind = "quote"
    /\ result.quote.current_price = Some(150)

----------------------------------------------------------------------------
(* C8 *)

\* C8: a rate-limit failure raised by the provider at any call of the chain
\* fetch - listing the dates or fetching one date's tables - makes the whole
\* chain fetch be retried with backoff while attempts remain, and ends in
\* the rate-limited error only after max_retries attempts.
C8_RateLimitRetriesChain ==
    /\ \A i \in EventIdx("raise") \cup EventIdx("date_error") :
        (fn = "get_options_chain" /\ log[i].src = "provider" /\ log[i].rl) =>
            \/ /\ pc = "done"
               /\ result.error = RateLimitMessage(fn)
               /\ NAttempts = args.max_retries
            \/ pc # "done"
            \/ \E j \in EventIdx("sleep") \cup EventIdx("raise") : j > i

----------------------------------------------------------------------------
(* C9 *)

\* every date of the provider's list was visited and the call returned
ChainCombined ==
    /\ LastAttemptAnswered
    /\ fn = "get_options_chain"
    /\ expirations # <<>>
    /\ Len(fetched) = Len(expirations)

\* C9: a date whose fetch raises does not make the call fail: the loop goes
\* on with the next date and the result holds exactly the qualifying rows of
\* the dates that succeeded, in the order the provider listed the dates.
C9_BadDateSkipped ==
    /\ ChainCombined =>
        /\ \A i \in 1..Len(fetched) : fetched[i].date = expirations[i]
        /\ IF ExpectedRows(fetched, args.option_type) # <<>>
           THEN /\ result.kind = "chain"
                /\ result.rows = ExpectedRows(fetched, args.option_type)
           ELSE /\ result.kind = "error"
                /\ result.error \in {"No valid options data found",
                                     "No valid options data after filtering"}
    /\ (fn = "get_options_chain" /\ pc = "dates") =>
        /\ log[Len(log)].e \in {"attempt", "date_error"}
        /\ Len(fetched) = dateIdx - 1
    /\ \A i \in EventIdx("date_error") :
        /\ pc \in {"dates", "done"}
        /\ pc = "done" => ChainCombined
        /\ \A j \in (i + 1)..Len(log) : log[j].e = "date_error"

C9_Witness ==
    /\ ChainCombined
    /\ Len(fetched) = 2
    /\ ~fetched[1].ok
    /\ fetched[2].ok
    /\ result.kind = "chain"
    /\ Len(result.rows) = 4

----------------------------------------------------------------------------
(* C10 *)

\* C10: a sequence returned as success is non-empty and each of its rows has
\* lastPrice > 0, has strike, lastPrice, bid and ask present, carries the
\* expiration date it was fetched for and an option type the request allows.
C10_RowsValid ==
    (pc = "done" /\ result.kind = "chain") =>
        /\ result.rows # <<>>
        /\ \A r \in 1..Len(result.rows) :
            LET row == result.rows[r]
            IN  /\ row.lastPrice # None /\ row.lastPrice[1] > 0
                /\ row.strike # None /\ row.bid # None /\ row.ask # None
                /\ row.optionType \in WantedTypes(args.option_type)
                /\ \E i \in 1..Len(fetched) :
                    /\ fetched[i].ok
                    /\ fetched[i].date = row.expirationDate
                    /\ fetched[i].date = expirations[i]
                    /\ LET table == IF row.optionType = "CALL"
                                    THEN fetched[i].calls ELSE fetched[i].puts
                       IN  \E k \in 1..Len(table) :
                            /\ table[k].strike = row.strike
                            /\ table[k].lastPrice = row.lastPrice
                            /\ table[k].bid = row.bid
                            /\ table[k].ask = row.ask

C10_Witness ==
    /\ pc = "done"
    /\ result.kind = "chain"
    /\ args.option_type = "both"
    /\ \E r \in 1..Len(result.rows) : result.rows[r].optionType = "CALL"
    /\ \E r \in 1..Len(result.rows) : result.rows[r].optionType = "PUT"
    /\ \E r \in 1..Len(result.rows) : result.rows[r].expirationDate = D2

FairSpec == Spec /\ WF_vars(Next)

----------------------------------------------------------------------------
(* C11 *)

\* the position in the log of the last progress update of the call
LastProgress == CHOOSE i \in EventIdx("progress") : \A j \in EventIdx("progress") : j <= i

\* the number of iterations that had failed when the event at i was logged
FailedBefore(i) == Cardinality({j \in EventIdx("raise") : j < i})

\* C11: every progress update of the retry loop carries the fraction
\* min(0.99, attemptIndex / max_retries), and this fraction is strictly
\* below 1.0 for every max_retries >= 1 and every attempt.
C11_ProgressBelowOne ==
    /\ shown # NoUpdate <=> EventIdx("progress") # {}
    /\ shown # NoUpdate =>
        LET a == FailedBefore(LastProgress)
            m == args.max_retries
        IN  /\ m >= 1
            /\ shown.den > 0
            /\ IF 100 * a <= 99 * m
               THEN shown.num * m = a * shown.den
               ELSE shown.num * 100 = 99 * shown.den
            /\ shown.num < shown.den

C11_Witness ==
    /\ shown.num = 4
    /\ shown.den = 5
    /\ FailedBefore(LastProgress) = 4
    /\ pc = "done"
    /\ result.kind = "error"

----------------------------------------------------------------------------
(* C12 *)

\* a placeholder is supplied, max_retries is 5 and every iteration so far
\* ended in a rate-limit error of the provider
ContinuousRateLimiting ==
    /\ fn # "none"
    /\ args.status_placeholder
    /\ args.max_retries = DefaultMaxRetries
    /\ \A i \in EventIdx("raise") : log[i].src = "provider" /\ log[i].rl
    /\ EventIdx("date_error") = {}

NProgress == Cardinality(EventIdx("progress"))

\* C12 as stated: one progress fraction for each of attempts 1 to 5, before
\* that attempt's wait, the fractions being 0, 0.2, 0.4, 0.6, 0.8 in order.
C12_FiveFractions ==
    ContinuousRateLimiting =>
        /\ AllAttemptsRateLimited => NProgress = 5
        /\ NProgress >= 1 =>
            /\ shown.num * 5 = (NProgress - 1) * shown.den
            /\ log[LastProgress].n = NProgress

\* C12 amended: one progress fraction before each of the waits that precede
\* attempts 2 to 5 and none for attempt 1, the fractions being 0.2, 0.4, 0.6,
\* 0.8 in order.
C12_FourFractions ==
    ContinuousRateLimiting =>
        /\ AllAttemptsRateLimited => NProgress = 4
        /\ \A i \in EventIdx("attempt") :
            log[i].n = 1 => \A j \in EventIdx("progress") : j > i
        /\ NProgress >= 1 =>
            /\ shown.num * 5 = NProgress * shown.den
            /\ shown.retry = NProgress + 1
            /\ log[LastProgress].n = NProgress + 1
            /\ FailedBefore(LastProgress) = NProgress
            /\ LastProgress < Len(log) =>
                /\ log[LastProgress + 1].e = "sleep"
                /\ log[LastProgress + 1].n = shown.wait
            /\ LastProgress + 1 < Len(log) =>
                /\ log[LastProgress + 2].e = "attempt"
                /\ log[LastProgress + 2].n = NProgress + 1

C12_Witness ==
    /\ ContinuousRateLimiting
    /\ AllAttemptsRateLimited
    /\ NProgress = 4
    /\ shown.num = 4
    /\ shown.den = 5


----------------------------------------------------------------------------
(* utils/options_calculator.py                                             *)
(*                                                                         *)
(* A cell of a table or a numeric argument is <<n>> for the number n, <<>>  *)
(* for NaN and NotANumber for an object that is not a number (None, a      *)
(* string).  Premiums and strikes are counted in the same unit, an ROI in  *)
(* hundredths of a percent, an implied volatility in 1/100000.  round()   *)
(* gives the hundredth nearest to the exact quotient; when the exact       *)
(* quotient lies halfway between two hundredths the error of the binary    *)
(* floating-point operations decides, and either neighbour can come out:   *)
(* the parameter `up` is that outcome.                                     *)

MaxChainLen == 2
TicksPerDay == 4

NotANumber == <<0, 0>>
IsNum(c) == Len(c) = 1
IsNaN(c) == c = <<>>

\* a <= 0 on cells: False on NaN (a TypeError on a non-number is the
\* caller's case)
LeqZero(c) == IsNum(c) /\ c[1] <= 0

\* round() of n / d for n >= 0, d > 0: the nearest integer, and at a tie
\* the upper one when up, else the lower one
RoundNearest(n, d, up) ==
    LET q == n \div d
        r == n % d
    IN  IF 2 * r < d THEN q
        ELSE IF 2 * r > d THEN q + 1
        ELSE IF up THEN q + 1 ELSE q

\* variant: the ROI is not annualized
calculate_annualized_roi_Raw(premium, strike_price, days_to_expiry, up) ==
    IF premium = NotANumber \/ strike_price = NotANumber THEN <<0>>
    ELSE IF LeqZero(premium) \/ LeqZero(strike_price) \/ days_to_expiry <= 0 THEN <<0>>
    ELSE IF IsNaN(premium) \/ IsNaN(strike_price) THEN <<>>
    ELSE <<RoundNearest(premium[1] * 100 * 100, strike_price[1], up)>>

\* variant: the raw return is multiplied by the days instead of divided
calculate_annualized_roi_PerDay(premium, strike_price, days_to_expiry, up) ==
    IF premium = NotANumber \/ strike_price = NotANumber THEN <<0>>
    ELSE IF LeqZero(premium) \/ LeqZero(strike_price) \/ days_to_expiry <= 0
         THEN <<0>>
    ELSE IF IsNaN(premium) \/ IsNaN(strike_price) THEN <<>>
    ELSE <<RoundNearest(premium[1] * 100 * days_to_expiry * 100,
                        strike_price[1] * 365, up)>>

\* lines 4-25: 0 for an input that is not positive (and for one that cannot
\* be compared), else round((premium / strike * 100) * 365 / days, 2)
calculate_annualized_roi(premium, strike_price, days_to_expiry, up) ==
    IF premium = NotANumber \/ strike_price = NotANumber THEN <<0>>
    ELSE IF LeqZero(premium) \/ LeqZero(strike_price) \/ days_to_expiry <= 0 THEN <<0>>
    ELSE IF IsNaN(premium) \/ IsNaN(strike_price) THEN <<>>
    ELSE <<RoundNearest(premium[1] * 100 * 365 * 100, strike_price[1] * days_to_expiry, up)>>

\* datetime.strptime(str(expiry_date), '%Y-%m-%d') as the number of days
\* from 2026-11-01 to the parsed date, <<>> when strptime raises
ParseDate(expiry_str) ==
    CASE expiry_str = "2026-10-31" -> <<0 - 1>>
      [] expiry_str = "2026-11-01" -> <<0>>
      [] expiry_str = "2026-11-02" -> <<1>>
      [] expiry_str = "2026-11-16" -> <<15>>
      [] expiry_str = "2026-12-01" -> <<30>>
      [] expiry_str = D1 -> <<47>>
      [] expiry_str = D2 -> <<75>>
      [] OTHER -> <<>>

ExpiryStrings ==
    {"2026-10-31", "2026-11-01", "2026-11-02", "2026-11-16", "2026-12-01", D1, D2,
     "2026-13-01", "2026-11-02 00:00:00", "NaT"}

\* datetime.now(): a day counted from 2026-11-01 and a time of day in ticks,
\* tick 0 being midnight
Nows == [day : {0, 1}, tick : 0..(TicksPerDay - 1)]

\* variant: the difference of the calendar dates
calculate_days_to_expiry_Dates(expiry_date, now) ==
    IF ParseDate(expiry_date) = <<>> THEN 0
    ELSE LET days == ParseDate(expiry_date)[1] - now.day
         IN  IF days > 0 THEN days ELSE 0

\* lines 27-42: (expiry - datetime.now()).days floored at 0, and 0 when the
\* date cannot be parsed; timedelta.days is the floor of the whole days
calculate_days_to_expiry(expiry_date, now) ==
    IF ParseDate(expiry_date) = <<>> THEN 0
    ELSE LET ticks == ParseDate(expiry_date)[1] * TicksPerDay
                        - (now.day * TicksPerDay + now.tick)
             days == ticks \div TicksPerDay
         IN  IF days > 0 THEN days ELSE 0

----------------------------------------------------------------------------
(* process_options_data *)

\* the columns of the frame returned by get_options_chain
AllColumns ==
    {"strike", "lastPrice", "bid", "ask", "volume", "openInterest",
     "impliedVolatility", "optionType", "expirationDate"}

OptionRow(type, strike, date, bid, ask, volume, oi, iv) ==
    [optionType |-> type, strike |-> strike, expirationDate |-> date,
     bid |-> bid, ask |-> ask, lastPrice |-> bid, volume |-> volume,
     openInterest |-> oi, impliedVolatility |-> iv]

\* rows of an options chain: strike, bid and ask are numbers (the fetcher
\* drops the rows where one is missing), the other cells can hold anything
PipelineRows ==
    { OptionRow("PUT",  <<14000>>,  "2026-11-16", <<100>>, <<120>>, <<10>>, <<20>>, <<25120>>),
      OptionRow("PUT",  <<15000>>,  "2026-12-01", <<150>>, <<140>>, <<>>,   <<5>>,  <<12345>>),
      OptionRow("PUT",  <<16000>>,  "2026-11-16", <<500>>, <<550>>, <<10>>, <<20>>, <<30000>>),
      OptionRow("PUT",  <<14000>>,  "2026-11-02", <<100>>, <<120>>, <<10>>, <<20>>, <<25120>>),
      OptionRow("PUT",  <<14000>>,  "2026-11-16", <<0>>,   <<120>>, <<10>>, <<20>>, <<25120>>),
      OptionRow("PUT",  <<14000>>,  "2026-11-16", <<100>>, <<120>>, <<10>>, <<20>>, NotANumber),
      OptionRow("CALL", <<16000>>,  "2026-11-16", <<100>>, <<120>>, <<10>>, <<>>,   <<>>),
      OptionRow("CALL", <<15000>>,  "2026-11-16", <<100>>, <<120>>, <<10>>, <<20>>, <<25120>>),
      OptionRow("PUT",  <<14000>>,  "NaT",        <<100>>, <<120>>, <<10>>, <<20>>, <<25120>>),
      OptionRow("CALL", <<14000>>,  "2026-11-16", <<500>>, <<550>>, <<10>>, <<20>>, <<30000>>),
      OptionRow("CALL", <<100000>>, D2,           <<1>>,   <<1>>,   <<10>>, <<20>>, <<25120>>) }

RECURSIVE SeqsUpTo(_, _)
\* the sequences over S of length at most n
SeqsUpTo(S, n) ==
    IF n = 0 THEN {<<>>}
    ELSE LET shorter == SeqsUpTo(S, n - 1)
         IN  shorter \cup {Append(q, x) : q \in {r \in shorter : Len(r) = n - 1}, x \in S}

\* the values of the options_chain argument: None, a frame, or the error
\* dict that get_options_chain returns
NoneChain == [kind |-> "None", columns |-> {}, rows |-> <<>>]
DictChain == [kind |-> "dict", columns |-> {}, rows |-> <<>>]
Frame(columns, rows) == [kind |-> "frame", columns |-> columns, rows |-> rows]

ColumnSets == {AllColumns, AllColumns \ {"volume"}}
StockPrices == {<<15000>>, <<14000>>, NotANumber}

NoRecord == <<>>

\* the dict appended at lines 85-97
Record(row, premium, days_to_expiry, roi, up) ==
    ("Strike Price" :> row.strike) @@ ("Expiry Date" :> row.expirationDate) @@
    ("Premium" :> premium) @@ ("Bid" :> row.bid) @@ ("Ask" :> row.ask) @@
    ("Days to Expiry" :> days_to_expiry) @@ ("Volume" :> row.volume) @@
    ("Open Interest" :> row.openInterest) @@
    ("Implied Volatility" :>
        IF IsNaN(row.impliedVolatility) THEN <<>>
        ELSE <<RoundNearest(row.impliedVolatility[1], 10, up)>>) @@
    ("Annualized ROI (%)" :> roi) @@ ("Option Type" :> row.optionType)

\* a > b on cells, False when one is NaN
Gt(a, b) == IsNum(a) /\ IsNum(b) /\ a[1] > b[1]

\* variant: the premium is the ask
Min_Ask(bid, ask) == ask

\* min(bid, ask): ask when ask < bid, else bid
Min(bid, ask) == IF Gt(bid, ask) THEN ask ELSE bid

Outcome(kind, record) == [kind |-> kind, record |-> record]

\* variant: the moneyness filter of line 57-58 is left out
ProcessRow_NoMoneyness(row, columns, current_stock_price, now, up) ==
    LET days_to_expiry == calculate_days_to_expiry(row.expirationDate, now)
        premium == Min(row.bid, row.ask)
        roi == calculate_annualized_roi(premium, row.strike, days_to_expiry, up)
    IN  IF {"optionType", "strike"} \ columns # {} THEN Outcome("error", NoRecord)
        ELSE IF "expirationDate" \notin columns THEN Outcome("error", NoRecord)
        ELSE IF days_to_expiry = 0 THEN Outcome("skip", NoRecord)
        ELSE IF {"bid", "ask"} \ columns # {} THEN Outcome("error", NoRecord)
        ELSE IF row.bid = NotANumber THEN Outcome("error", NoRecord)
        ELSE IF LeqZero(row.bid) THEN Outcome("skip", NoRecord)
        ELSE IF row.ask = NotANumber THEN Outcome("error", NoRecord)
        ELSE IF LeqZero(row.ask) THEN Outcome("skip", NoRecord)
        ELSE IF LeqZero(premium) THEN Outcome("skip", NoRecord)
        ELSE IF ~(IsNum(roi) /\ roi[1] > 0) THEN Outcome("skip", NoRecord)
        ELSE IF {"volume", "openInterest", "impliedVolatility"} \ columns # {}
             THEN Outcome("error", NoRecord)
        ELSE IF row.impliedVolatility = NotANumber THEN Outcome("error", NoRecord)
        ELSE Outcome("emit", Record(row, premium, days_to_expiry, roi, up))

\* lines 55-101, the body of the loop for one row: "emit" with the record
\* appended, "skip" for a row left out, "error" for a row whose processing
\* raised (a column that is missing, a cell or a price that is not a number)
ProcessRow(row, columns, current_stock_price, now, up) ==
    LET days_to_expiry == calculate_days_to_expiry(row.expirationDate, now)
        premium == Min(row.bid, row.ask)
        roi == calculate_annualized_roi(premium, row.strike, days_to_expiry, up)
    IN  IF "optionType" \notin columns THEN Outcome("error", NoRecord)
        ELSE IF row.optionType \in {"PUT", "CALL"} /\ "strike" \notin columns
             THEN Outcome("error", NoRecord)
        ELSE IF row.optionType \in {"PUT", "CALL"}
                  /\ (row.strike = NotANumber \/ current_stock_price = NotANumber)
             THEN Outcome("error", NoRecord)
        ELSE IF row.optionType = "PUT" /\ Gt(row.strike, current_stock_price)
             THEN Outcome("skip", NoRecord)
        ELSE IF row.optionType = "CALL" /\ Gt(current_stock_price, row.strike)
             THEN Outcome("skip", NoRecord)
        ELSE IF "expirationDate" \notin columns THEN Outcome("error", NoRecord)
        ELSE IF days_to_expiry = 0 THEN Outcome("skip", NoRecord)
        ELSE IF {"bid", "ask"} \ columns # {} THEN Outcome("error", NoRecord)
        ELSE IF row.bid = NotANumber THEN Outcome("error", NoRecord)
        ELSE IF LeqZero(row.bid) THEN Outcome("skip", NoRecord)
        ELSE IF row.ask = NotANumber THEN Outcome("error", NoRecord)
        ELSE IF LeqZero(row.ask) THEN Outcome("skip", NoRecord)
        ELSE IF LeqZero(premium) THEN Outcome("skip", NoRecord)
        ELSE IF "strike" \notin columns THEN Outcome("error", NoRecord)
        ELSE IF ~(IsNum(roi) /\ roi[1] > 0) THEN Outcome("skip", NoRecord)
        ELSE IF {"volume", "openInterest", "impliedVolatility"} \ columns # {}
             THEN Outcome("error", NoRecord)
        ELSE IF row.impliedVolatility = NotANumber THEN Outcome("error", NoRecord)
        ELSE Outcome("emit", Record(row, premium, days_to_expiry, roi, up))

----------------------------------------------------------------------------
(* The calculator called on its own: calculate_annualized_roi and
   calculate_days_to_expiry.  A call completes in one step; `fetched` keeps
   the call of calculate_annualized_roi made just before the current one. *)

\* money in hundredths (150 is 1.50), <<>> is NaN, NotANumber is None
Premiums == {<<0 - 50>>, <<0>>, <<100>>, <<150>>, <<200>>, <<>>, NotANumber}
Strikes == {<<0 - 100>>, <<0>>, <<14000>>, <<15000>>, <<>>, NotANumber}
DaysSamples == {0 - 1, 0, 15, 30, 365}

RoiArgs(premium, strike_price, days_to_expiry) ==
    [premium |-> premium, strike_price |-> strike_price,
     days_to_expiry |-> days_to_expiry]

Call_calculate_annualized_roi ==
    /\ \/ pc = "idle"
       \/ pc = "done" /\ fn = "calculate_annualized_roi" /\ fetched = <<>>
    /\ \E premium \in Premiums, strike_price \in Strikes,
          days_to_expiry \in DaysSamples, up \in BOOLEAN :
          /\ args' = RoiArgs(premium, strike_price, days_to_expiry)
          /\ result' = calculate_annualized_roi(premium, strike_price,
                                                days_to_expiry, up)
    /\ fn' = "calculate_annualized_roi"
    /\ pc' = "done"
    /\ fetched' = IF pc = "done" THEN <<[args |-> args, result |-> result]>>
                  ELSE <<>>
    /\ UNCHANGED <<attempt, expirations, dateIdx, all_options,
                   last_error_message, last_error_details, shown, log, lastExc>>

Call_calculate_days_to_expiry ==
    /\ pc = "idle"
    /\ \E expiry_date \in ExpiryStrings, now \in Nows :
          /\ args' = [expiry_date |-> expiry_date, now |-> now]
          /\ result' = calculate_days_to_expiry(expiry_date, now)
    /\ fn' = "calculate_days_to_expiry"
    /\ pc' = "done"
    /\ UNCHANGED <<attempt, expirations, dateIdx, all_options,
                   last_error_message, last_error_details, shown, log,
                   fetched, lastExc>>

NextCalc ==
    \/ Call_calculate_annualized_roi
    \/ Call_calculate_days_to_expiry
    \/ Return

SpecCalc == Init /\ [][NextCalc]_vars

RoiReturned == fn = "calculate_annualized_roi" /\ pc = "done"

Positive(c) == IsNum(c) /\ c[1] > 0

\* h is a nearest hundredth of premium / strike_price * 100 * 365 / days
NearestHundredth(h, premium, strike_price, days_to_expiry) ==
    LET n == premium * 100 * 365 * 100
        d == strike_price * days_to_expiry
    IN  /\ 2 * (h * d - n) <= d
        /\ 2 * (n - h * d) <= d

\* C13: calculate_annualized_roi returns 0 whenever premium, strike_price or
\* days_to_expiry is <= 0, in any combination, and for strictly positive
\* inputs the value (premium / strike_price) * 100 * 365 / days_to_expiry
\* rounded to 2 decimal places; premium 1.50, strike 150.00, 30 days: 12.17
C13_RoiFormula ==
    RoiReturned =>
        /\ (LeqZero(args.premium) \/ LeqZero(args.strike_price)
                \/ args.days_to_expiry <= 0) => result = <<0>>
        /\ (Positive(args.premium) /\ Positive(args.strike_price)
                /\ args.days_to_expiry > 0) =>
              /\ IsNum(result)
              /\ NearestHundredth(result[1], args.premium[1],
                                  args.strike_price[1], args.days_to_expiry)
        /\ args = RoiArgs(<<150>>, <<15000>>, 30) => result = <<1217>>

C13_Witness ==
    /\ RoiReturned
    /\ args = RoiArgs(<<150>>, <<15000>>, 30)
    /\ result = <<1217>>
    /\ fetched # <<>>
    /\ fetched[1].args = RoiArgs(<<0 - 50>>, <<0>>, 0 - 1)
    /\ fetched[1].result = <<0>>

AllPositive(a) ==
    Positive(a.premium) /\ Positive(a.strike_price) /\ a.days_to_expiry > 0

\* C14: for strictly positive inputs calculate_annualized_roi does not
\* decrease when premium grows and does not increase when strike_price or
\* days_to_expiry grows, the other two inputs being the same
C14_Monotone ==
    (RoiReturned /\ fetched # <<>>) =>
        LET a == fetched[1].args
            b == args
            ra == fetched[1].result
            rb == result
        IN  (AllPositive(a) /\ AllPositive(b)) =>
              /\ (a.strike_price = b.strike_price
                    /\ a.days_to_expiry = b.days_to_expiry
                    /\ a.premium[1] < b.premium[1]) => ra[1] <= rb[1]
              /\ (a.premium = b.premium
                    /\ a.days_to_expiry = b.days_to_expiry
                    /\ a.strike_price[1] < b.strike_price[1]) => ra[1] >= rb[1]
              /\ (a.premium = b.premium
                    /\ a.strike_price = b.strike_price
                    /\ a.days_to_expiry < b.days_to_expiry) => ra[1] >= rb[1]

C14_Witness ==
    /\ RoiReturned
    /\ fetched # <<>>
    /\ fetched[1].args = RoiArgs(<<100>>, <<14000>>, 15)
    /\ fetched[1].result = <<1738>>
    /\ args = RoiArgs(<<100>>, <<14000>>, 30)
    /\ result = <<869>>

DaysReturned == fn = "calculate_days_to_expiry" /\ pc = "done"

\* the number of calendar days from the date of the call to the expiry date
CalendarDaysAhead == ParseDate(args.expiry_date)[1] - args.now.day

\* C15 as stated: calculate_days_to_expiry is never negative, is 0 for an
\* expiry date of today or the past and for an unparseable string, and is N
\* for a date N calendar days ahead at whatever time of day it is called
C15_CalendarDays ==
    DaysReturned =>
        /\ result >= 0
        /\ ParseDate(args.expiry_date) = <<>> => result = 0
        /\ ParseDate(args.expiry_date) # <<>> =>
              IF CalendarDaysAhead <= 0 THEN result = 0
              ELSE result = CalendarDaysAhead

\* C15: calculate_days_to_expiry is never negative, is 0 for an expiry date
\* of today or the past and for an unparseable string; for a date N calendar
\* days ahead it is N when called at midnight and N - 1 at any later time
C15_WholeDays ==
    DaysReturned =>
        /\ result >= 0
        /\ ParseDate(args.expiry_date) = <<>> => result = 0
        /\ ParseDate(args.expiry_date) # <<>> =>
              IF CalendarDaysAhead <= 0 THEN result = 0
              ELSE IF args.now.tick = 0 THEN result = CalendarDaysAhead
              ELSE result = CalendarDaysAhead - 1

C15_Witness ==
    /\ DaysReturned
    /\ args.expiry_date = "2026-11-16"
    /\ args.now = [day |-> 0, tick |-> 2]
    /\ result = 14

----------------------------------------------------------------------------
(* process_options_data called on its own.  `log` keeps, for each record of
   the returned list, the index of the input row it was appended for. *)

Processed(raised, results, sources) ==
    [raised |-> raised, results |-> results, sources |-> sources]

RECURSIVE Loop_Prepend(_, _, _, _, _)
\* variant: a new record is put at the front of the list
Loop_Prepend(chain, current_stock_price, now, ups, n) ==
    IF n = 0 THEN Processed(FALSE, <<>>, <<>>)
    ELSE LET prev == Loop_Prepend(chain, current_stock_price, now, ups, n - 1)
             o == ProcessRow(chain.rows[n], chain.columns,
                             current_stock_price, now, ups[n])
         IN  IF o.kind = "emit"
             THEN Processed(FALSE, <<o.record>> \o prev.results,
                            <<n>> \o prev.sources)
             ELSE prev

RECURSIVE Loop_Abort(_, _, _, _, _)
\* variant: the first row that raises ends the loop
Loop_Abort(chain, current_stock_price, now, ups, n) ==
    IF n = 0 THEN Processed(FALSE, <<>>, <<>>)
    ELSE LET prev == Loop_Abort(chain, current_stock_price, now, ups, n - 1)
             o == ProcessRow(chain.rows[n], chain.columns,
                             current_stock_price, now, ups[n])
         IN  IF prev.raised \/ o.kind = "error"
             THEN Processed(TRUE, prev.results, prev.sources)
             ELSE IF o.kind = "emit"
             THEN Processed(FALSE, Append(prev.results, o.record),
                            Append(prev.sources, n))
             ELSE prev

RECURSIVE Loop(_, _, _, _, _)
\* lines 52-101: the loop over the first n rows of the frame
Loop(chain, current_stock_price, now, ups, n) ==
    IF n = 0 THEN Processed(FALSE, <<>>, <<>>)
    ELSE LET prev == Loop(chain, current_stock_price, now, ups, n - 1)
             o == ProcessRow(chain.rows[n], chain.columns,
                             current_stock_price, now, ups[n])
         IN  IF o.kind = "emit"
             THEN Processed(FALSE, Append(prev.results, o.record),
                            Append(prev.sources, n))
             ELSE prev

\* lines 44-104; a dict has no attribute `empty`, and line 48 is outside the try
process_options_data(options_chain, current_stock_price, now, ups) ==
    IF options_chain.kind = "None" THEN Processed(FALSE, <<>>, <<>>)
    ELSE IF options_chain.kind = "dict" THEN Processed(TRUE, <<>>, <<>>)
    ELSE IF options_chain.rows = <<>> THEN Processed(FALSE, <<>>, <<>>)
    ELSE Loop(options_chain, current_stock_price, now, ups,
              Len(options_chain.rows))

\* what the callers pass as the chain: None or a frame
Chains ==
    {NoneChain} \cup
    {Frame(c, r) : c \in ColumnSets, r \in SeqsUpTo(PipelineRows, MaxChainLen)}

Call_process_options_data ==
    /\ pc = "idle"
    /\ \E options_chain \in Chains, current_stock_price \in StockPrices,
          now \in Nows, ups \in [1..MaxChainLen -> BOOLEAN] :
          LET out == process_options_data(options_chain, current_stock_price,
                                          now, ups)
          IN  /\ args' = [options_chain |-> options_chain,
                          current_stock_price |-> current_stock_price,
                          now |-> now]
              /\ result' = [raised |-> out.raised, results |-> out.results]
              /\ log' = out.sources
    /\ fn' = "process_options_data"
    /\ pc' = "done"
    /\ UNCHANGED <<attempt, expirations, dateIdx, all_options,
                   last_error_message, last_error_details, shown, fetched,
                   lastExc>>

NextPipeline ==
    \/ Call_process_options_data
    \/ Return

SpecPipeline == Init /\ [][NextPipeline]_vars

PipelineReturned == fn = "process_options_data" /\ pc = "done"

Records == {result.results[i] : i \in 1..Len(result.results)}

InputRows == args.options_chain.rows

\* C16: each record emitted by process_options_data has an annualized ROI
\* that is a number > 0, days to expiry > 0, bid > 0, ask > 0, strike > 0
\* and a premium equal to the lower of bid and ask
C16_RecordsValid ==
    PipelineReturned =>
        \A r \in Records :
            /\ Positive(r["Annualized ROI (%)"])
            /\ r["Days to Expiry"] > 0
            /\ Positive(r["Bid"])
            /\ Positive(r["Ask"])
            /\ Positive(r["Strike Price"])
            /\ r["Premium"] \in {r["Bid"], r["Ask"]}
            /\ r["Premium"][1] <= r["Bid"][1]
            /\ r["Premium"][1] <= r["Ask"][1]

\* a row whose annualized ROI rounds to 0.00, which is left out, then a row
\* whose ask is below its bid, which is emitted with the ask as its premium
C16_Witness ==
    /\ PipelineReturned
    /\ Len(InputRows) = 2
    /\ InputRows[1].optionType = "CALL"
    /\ InputRows[1].strike = <<100000>>
    /\ InputRows[1].bid = <<1>>
    /\ args.current_stock_price = <<15000>>
    /\ args.now = [day |-> 0, tick |-> 1]
    /\ InputRows[2].bid = <<150>>
    /\ InputRows[2].ask = <<140>>
    /\ log = <<2>>
    /\ result.results[1]["Premium"] = <<140>>
    /\ result.results[1]["Days to Expiry"] = 29
    /\ result.results[1]["Annualized ROI (%)"] = <<1175>>

\* the days to expiry that calculate_days_to_expiry gives at args.now
DaysAhead(row) ==
    IF ParseDate(row.expirationDate) = <<>> THEN 0
    ELSE LET n == ParseDate(row.expirationDate)[1] - args.now.day
         IN  IF args.now.tick = 0 THEN n ELSE n - 1

Lower(a, b) == IF a <= b THEN a ELSE b

\* a row that passes every step after the moneyness filter: all the columns
\* read are there, it expires a whole day ahead or more, bid and ask are
\* positive, the annualized ROI rounds to more than 0, IV is a number or NaN
Tradable(row) ==
    /\ args.options_chain.columns = AllColumns
    /\ DaysAhead(row) > 0
    /\ Positive(row.bid) /\ Positive(row.ask) /\ Positive(row.strike)
    /\ Lower(row.bid[1], row.ask[1]) * 100 * 365 * 100
          > (row.strike[1] * DaysAhead(row)) \div 2
    /\ row.impliedVolatility # NotANumber

Emitted(i) == \E k \in 1..Len(log) : log[k] = i

\* C17: process_options_data emits no PUT with strike > current price and no
\* CALL with strike < current price; a contract whose strike equals the
\* current price is not removed by this filter, whatever its type
C17_Moneyness ==
    PipelineReturned =>
        LET price == args.current_stock_price
        IN  /\ \A r \in Records :
                  /\ IsNum(price)
                  /\ r["Option Type"] = "PUT" => r["Strike Price"][1] <= price[1]
                  /\ r["Option Type"] = "CALL" => r["Strike Price"][1] >= price[1]
            /\ \A i \in 1..Len(InputRows) :
                  (InputRows[i].strike = price /\ Tradable(InputRows[i]))
                      => Emitted(i)

C17_Witness ==
    /\ PipelineReturned
    /\ args.current_stock_price = <<15000>>
    /\ Len(InputRows) = 2
    /\ InputRows[1].optionType = "PUT" /\ InputRows[1].strike = <<15000>>
    /\ InputRows[2].optionType = "CALL" /\ InputRows[2].strike = <<15000>>
    /\ log = <<1, 2>>

\* C18: the records are in the order of their input rows, no row yields more
\* than one record, and each record's strike, expiry date, option type, bid,
\* ask, volume and open interest are those of its source row
C18_OrderPreserved ==
    PipelineReturned =>
        /\ Len(log) = Len(result.results)
        /\ \A k \in 1..Len(log) : log[k] \in 1..Len(InputRows)
        /\ \A k, l \in 1..Len(log) : k < l => log[k] < log[l]
        /\ \A k \in 1..Len(log) :
              LET r == result.results[k]
                  row == InputRows[log[k]]
              IN  /\ r["Strike Price"] = row.strike
                  /\ r["Expiry Date"] = row.expirationDate
                  /\ r["Option Type"] = row.optionType
                  /\ r["Bid"] = row.bid
                  /\ r["Ask"] = row.ask
                  /\ r["Volume"] = row.volume
                  /\ r["Open Interest"] = row.openInterest

\* two rows emitted with a skipped row between them in the longest chain, or
\* next to each other
C18_Witness ==
    /\ PipelineReturned
    /\ Len(InputRows) = MaxChainLen
    /\ Len(log) = 2
    /\ log[1] = 1
    /\ log[2] = MaxChainLen
    /\ result.results[1]["Option Type"] = "CALL"
    /\ result.results[2]["Option Type"] = "PUT"
    /\ result.results[1]["Strike Price"][1] > result.results[2]["Strike Price"][1]

\* a row whose processing raises: a column it reads is missing, or the cell
\* of the implied volatility is not a number
Fails(row) ==
    /\ IsNum(args.current_stock_price)
    /\ DaysAhead(row) > 0
    /\ Positive(row.bid) /\ Positive(row.ask) /\ Positive(row.strike)
    /\ \/ args.options_chain.columns # AllColumns
       \/ row.impliedVolatility = NotANumber

MoneynessOk(row) ==
    /\ IsNum(args.current_stock_price)
    /\ row.optionType = "PUT" => row.strike[1] <= args.current_stock_price[1]
    /\ row.optionType = "CALL" => row.strike[1] >= args.current_stock_price[1]

----------------------------------------------------------------------------
(* pages/01_quick_sell_puts.py: the loop over the tickers.  One run of the
   script; `log` keeps what was drawn for each ticker so far, and the ticker
   of the next iteration is the one after those. *)

\* the first tickers of the list of lines 48-50
PageTickers == <<"MSTY", "PLTY">>

\* the sidebar filters at their preset values (lines 54-58), money in hundredths
max_days_filter == 51
below_current_price_percent == 10
min_open_interest == 5
min_volume == 5
min_premium == 5

\* provider records for get_stock_info: none, one with a price, one without
PageInfos ==
    { EmptyInfo,
      [EmptyInfo EXCEPT !.empty = FALSE, !.regularMarketPrice = Some(15000),
                        !.longName = Some("Apple Inc.")],
      [EmptyInfo EXCEPT !.empty = FALSE, !.currentPrice = Some(0)] }

\* what get_stock_info(ticker) can return
StockInfoValues(ticker) ==
    {StockResult(ticker, info) : info \in PageInfos}
    \cup {RateLimitedResult("get_stock_info", E_TMR),
          FailedResult("get_stock_info", ticker, E_Timeout)}

PutRows ==
    { OptionRow("PUT", <<13000>>, "2026-11-16", <<100>>, <<120>>, <<10>>, <<20>>, <<25120>>),
      OptionRow("PUT", <<12000>>, "2026-12-01", <<150>>, <<140>>, <<10>>, <<5>>,  <<12345>>),
      OptionRow("PUT", <<14000>>, "2026-11-16", <<100>>, <<120>>, <<10>>, <<20>>, <<25120>>),
      OptionRow("PUT", <<13000>>, D2,           <<100>>, <<120>>, <<>>,   <<20>>, <<25120>>),
      OptionRow("PUT", <<16000>>, "2026-11-16", <<500>>, <<550>>, <<10>>, <<20>>, <<30000>>) }

\* what get_options_chain(ticker, option_type='put') can return: a frame
\* with one row or more, or one of its error dicts
OptionsChainValues(ticker) ==
    {ChainResult(rows) : rows \in SeqsUpTo(PutRows, MaxChainLen) \ {<<>>}}
    \cup {ErrorResult("No options expirations found for", ticker,
                      "No options data available for this ticker symbol.", <<>>),
          ChainResultOf(ticker, <<>>),
          ChainResultOf(ticker, <<<<>>>>),
          RateLimitedResult("get_options_chain", E_TMR),
          FailedResult("get_options_chain", ticker, E_Timeout),
          MaxRetriesExceeded("get_options_chain")}

\* the object process_options_data receives for a returned value
AsChain(options_data) ==
    IF options_data.kind = "error" THEN DictChain
    ELSE Frame(AllColumns, options_data.rows)

Message(msg, arg) == [msg |-> msg, arg |-> arg]

\* the (ticker, data, error) tuple; raised when an exception leaves instead
Tuple(ticker, data, error) ==
    [raised |-> FALSE, ticker |-> ticker, data |-> data, error |-> error]

RaisedFrom(ticker) ==
    [raised |-> TRUE, ticker |-> ticker, data |-> None, error |-> None]

\* lines 111-117: the filters of the sidebar (a comparison with NaN is False)
PassesFilters(r, current_price) ==
    /\ r["Strike Price"][1] * 100 <= current_price[1] * (100 - below_current_price_percent)
    /\ r["Days to Expiry"] <= max_days_filter
    /\ r["Premium"][1] >= min_premium
    /\ IsNum(r["Volume"]) /\ r["Volume"][1] >= min_volume
    /\ IsNum(r["Open Interest"]) /\ r["Open Interest"][1] >= min_open_interest

RECURSIVE SortByRoi(_)
\* line 120: sort_values(by='Annualized ROI (%)', ascending=False)
SortByRoi(records) ==
    IF records = <<>> THEN <<>>
    ELSE LET h == Head(records)
             rest == SortByRoi(Tail(records))
             Above(r) == r["Annualized ROI (%)"][1] > h["Annualized ROI (%)"][1]
             NotAbove(r) == ~Above(r)
         IN  SelectSeq(rest, Above) \o <<h>> \o SelectSeq(rest, NotAbove)

\* lines 78-140.  The display copy of the table (lines 124-131), the same
\* rows with the money columns formatted, is not kept.
process_ticker(ticker, stock_info, options_data, now, ups) ==
    IF stock_info.kind = "error"
    THEN Tuple(ticker, None, Some(Message(stock_info.error, stock_info.arg)))
    ELSE IF options_data.kind = "none"
    THEN Tuple(ticker, None, Some(Message("No options data available for", ticker)))
    ELSE
    LET current_price == stock_info.quote.current_price
        out == process_options_data(AsChain(options_data), current_price, now, ups)
        filtered_df ==
            SortByRoi(SelectSeq(out.results,
                                LAMBDA r : PassesFilters(r, current_price)))
    IN  IF out.raised THEN RaisedFrom(ticker)
        ELSE IF out.results = <<>>
        THEN Tuple(ticker, None, Some(Message("No valid options data for", ticker)))
        ELSE IF filtered_df = <<>>
        THEN Tuple(ticker, None,
                   Some(Message("No options matching filters for", ticker)))
        ELSE Tuple(ticker,
                   Some([filtered_df |-> filtered_df,
                         current_price |-> current_price,
                         company_name |-> stock_info.quote.name]),
                   None)

Drawn(ticker, what, text) == [ticker |-> ticker, what |-> what, text |-> text]

\* lines 143-153: the next ticker of the loop is processed
Call_process_ticker ==
    /\ pc = "idle"
    /\ Len(log) < Len(PageTickers)
    /\ LET ticker == PageTickers[Len(log) + 1]
       IN  \E stock_info \in StockInfoValues(ticker),
              options_data \in OptionsChainValues(ticker),
              now \in Nows, ups \in [1..MaxChainLen -> BOOLEAN] :
              LET out == process_ticker(ticker, stock_info, options_data, now, ups)
              IN  /\ args' = [ticker |-> ticker, stock_info |-> stock_info,
                              options_data |-> options_data, now |-> now]
                  /\ result' = out
                  /\ pc' = IF out.raised THEN "raised" ELSE "done"
    /\ fn' = "process_ticker"
    /\ UNCHANGED <<attempt, expirations, dateIdx, all_options,
                   last_error_message, last_error_details, shown, log,
                   fetched, lastExc>>

\* lines 155-157: st.error(error); continue
ShowError ==
    /\ fn = "process_ticker" /\ pc = "done"
    /\ result.error # None
    /\ log' = Append(log, Drawn(result.ticker, "error", result.error[1]))
    /\ fn' = "none"
    /\ args' = NoArgs
    /\ result' = NoResult
    /\ pc' = "idle"
    /\ UNCHANGED <<attempt, expirations, dateIdx, all_options,
                   last_error_message, last_error_details, shown, fetched,
                   lastExc>>

\* lines 159-198: the metrics and the table of the ticker are drawn
ShowTable ==
    /\ fn = "process_ticker" /\ pc = "done"
    /\ result.error = None
    /\ log' = Append(log, Drawn(result.ticker, "table", Message("", "")))
    /\ fn' = "none"
    /\ args' = NoArgs
    /\ result' = NoResult
    /\ pc' = "idle"
    /\ UNCHANGED <<attempt, expirations, dateIdx, all_options,
                   last_error_message, last_error_details, shown, fetched,
                   lastExc>>

\* the script is run again, after its end or after an exception stopped it
Rerun ==
    /\ \/ pc = "raised"
       \/ pc = "idle" /\ Len(log) = Len(PageTickers)
    /\ fn' = "none"
    /\ args' = NoArgs
    /\ result' = NoResult
    /\ pc' = "idle"
    /\ log' = <<>>
    /\ UNCHANGED <<attempt, expirations, dateIdx, all_options,
                   last_error_message, last_error_details, shown, fetched,
                   lastExc>>

NextPage ==
    \/ Call_process_ticker
    \/ ShowError
    \/ ShowTable
    \/ Rerun

SpecPage == Init /\ [][NextPage]_vars

\* C20: for every value get_options_chain can return, the error dict
\* included, process_ticker returns a (ticker, data, error) tuple and does
\* not raise; a fetch error of a ticker comes back as the error of its tuple,
\* and the loop goes on to the next ticker
C20_FetchErrorShown ==
    /\ pc # "raised"
    /\ (fn = "process_ticker" /\ pc = "done") =>
          /\ ~result.raised
          /\ result.ticker = args.ticker
          /\ (args.stock_info.kind = "error" \/ args.options_data.kind = "error")
                => (result.error # None /\ result.data = None)

----------------------------------------------------------------------------
(* The process-wide last error: last_error_message, last_error_details *)

\* the first 100 characters of each rate-limit text, listed: E_TMR503 is
\* 149 characters long, its first 100 end 71 characters into the traceback
ListedFirst100(text) ==
    IF text = E_TMR503
    THEN [toks |-> <<"Too Many Requests", "status", "503">>, cut |-> 72]
    ELSE [toks |-> text, cut |-> 0]

\* every update of the log comes right after the caught rate-limit error of
\* the iteration before it, and right before the sleep of its own iteration
\* (which is before the provider attempt of that iteration)
UpdatesInOrder ==
    \A i \in EventIdx("progress") :
        /\ i > 1
        /\ log[i - 1].e = "raise"
        /\ log[i - 1].n = log[i].n - 1
        /\ log[i - 1].rl
        /\ i < Len(log)
        /\ \/ log[i + 1].e = "sleep"
           \/ log[i + 1].e = "raise" /\ log[i + 1].src = "sleep"
        /\ \A j \in EventIdx("attempt") : log[j].n >= log[i].n => j > i + 1

\* a step that draws an update draws the error caught last by this call
UpdateShowsLastError ==
    (shown' # shown /\ shown' # NoUpdate) =>
        /\ fn' = fn /\ pc = "backoff"
        /\ lastExc \in RateLimitTexts
        /\ shown'.retry = attempt + 1
        /\ shown'.message = [prefix |-> "Yahoo Finance API Error: ",
                             body |-> ListedFirst100(lastExc), suffix |-> "..."]
        /\ shown'.details = lastExc

\* C21: in single-threaded execution each progress update is emitted after
\* the failure of attempt k and before the sleep that precedes attempt k+1,
\* and the summary and detail it shows are those of attempt k of the same
\* call: the first 100 characters of the text of that error (between
\* "Yahoo Finance API Error: " and "...") and its full text
C21_UpdateOfSameCall == [](UpdatesInOrder) /\ [][UpdateShowsLastError]_vars

\* the third update of a call shows a text longer than 100 characters, cut,
\* after updates for other errors
C21_Witness ==
    /\ pc = "fetch"
    /\ attempt = 3
    /\ shown.retry = 4
    /\ shown.details = E_TMR503
    /\ shown.message.body.cut = 72
    /\ Len(shown.message.body.toks) = 3
    /\ Cardinality(EventIdx("progress")) = 3
    /\ log[Len(log)].e = "sleep"
    /\ last_error_details = E_TMR503

----------------------------------------------------------------------------
(* Two fetch calls in one process, e.g. the scripts of two sessions, each in
   its own thread: the module globals last_error_message and
   last_error_details are shared, everything else is local to a call.  In
   this specification fn, args, pc, attempt, shown, result, log and lastExc
   hold one value per call; log[c] lists the provider outcomes of the
   attempts of call c and lastExc[c] is its local error_str. *)

Calls == {1, 2}

\* max_retries of the interleaved calls goes up to this
MaxInterleavedRetries == 2

TickerOf == <<"AAPL", "MSFT">>

\* provider errors: rate-limited (149 characters long), other
CallErrTexts == {E_TMR503, E_Timeout}

\* answers of stock.info
CallInfos ==
    { EmptyInfo,
      [EmptyInfo EXCEPT !.empty = FALSE, !.regularMarketPrice = Some(151)] }

\* answers of one attempt of get_options_chain: the frames collected over
\* the dates, None standing for an empty list of expirations
CallFrames ==
    { None,
      <<Collect(<<R_good>>, "PUT", D1)>>,
      <<Collect(<<R_nobid>>, "PUT", D1)>> }

Raise(e) == [kind |-> "raise", text |-> e, value |-> NoResult]
Answer(v) == [kind |-> "answer", text |-> <<>>, value |-> v]

NoShown == [retry |-> 0, message |-> NoSummary, details |-> <<>>]

InitInterleaved ==
    /\ fn = [c \in Calls |-> "none"]
    /\ args = [c \in Calls |-> NoArgs]
    /\ pc = [c \in Calls |-> "idle"]
    /\ attempt = [c \in Calls |-> 0]
    /\ shown = [c \in Calls |-> NoShown]
    /\ result = [c \in Calls |-> NoResult]
    /\ log = [c \in Calls |-> <<>>]
    /\ lastExc = [c \in Calls |-> <<>>]
    /\ last_error_message = NoSummary
    /\ last_error_details = <<>>
    /\ expirations = <<>>
    /\ dateIdx = 0
    /\ all_options = <<>>
    /\ fetched = <<>>

\* line 12 / 103: call c starts
EnterCall(c) ==
    /\ pc[c] = "idle"
    /\ \E f \in {"get_stock_info", "get_options_chain"},
          m \in 1..MaxInterleavedRetries, sp \in BOOLEAN :
          /\ fn' = [fn EXCEPT ![c] = f]
          /\ args' = [args EXCEPT ![c] =
                 [ticker |-> TickerOf[c],
                  option_type |-> IF f = "get_options_chain" THEN "put" ELSE "",
                  max_retries |-> m, initial_delay |-> DefaultInitialDelay,
                  status_placeholder |-> sp]]
    /\ pc' = [pc EXCEPT ![c] = "for"]
    /\ attempt' = [attempt EXCEPT ![c] = 0]
    /\ shown' = [shown EXCEPT ![c] = NoShown]
    /\ result' = [result EXCEPT ![c] = NoResult]
    /\ log' = [log EXCEPT ![c] = <<>>]
    /\ lastExc' = [lastExc EXCEPT ![c] = <<>>]
    /\ UNCHANGED <<last_error_message, last_error_details, expirations,
                   dateIdx, all_options, fetched>>

\* line 18-25 / 109-116 and 101 / 214
NextIteration(c) ==
    /\ pc[c] = "for"
    /\ IF attempt[c] < args[c].max_retries
       THEN /\ pc' = [pc EXCEPT ![c] =
                        IF attempt[c] = 0 THEN "fetch"
                        ELSE IF args[c].status_placeholder THEN "show_message"
                        ELSE "sleep"]
            /\ UNCHANGED result
       ELSE /\ pc' = [pc EXCEPT ![c] = "done"]
            /\ result' = [result EXCEPT ![c] = MaxRetriesExceeded(fn[c])]
    /\ UNCHANGED <<fn, args, attempt, shown, log, lastExc, last_error_message,
                   last_error_details, expirations, dateIdx, all_options, fetched>>

\* lines 27-31 / 118-122: the warning and st.error(last_error_message)
ShowMessage(c) ==
    /\ pc[c] = "show_message"
    /\ shown' = [shown EXCEPT ![c] =
                    [retry |-> attempt[c] + 1, message |-> last_error_message,
                     details |-> <<>>]]
    /\ pc' = [pc EXCEPT ![c] = "show_details"]
    /\ UNCHANGED <<fn, args, attempt, result, log, lastExc, last_error_message,
                   last_error_details, expirations, dateIdx, all_options, fetched>>

\* lines 34-40 / 125-131: st.code(last_error_details) and the progress bar
ShowDetails(c) ==
    /\ pc[c] = "show_details"
    /\ shown' = [shown EXCEPT ![c].details = last_error_details]
    /\ pc' = [pc EXCEPT ![c] = "sleep"]
    /\ UNCHANGED <<fn, args, attempt, result, log, lastExc, last_error_message,
                   last_error_details, expirations, dateIdx, all_options, fetched>>

\* line 42 / 133: time.sleep(wait_time) ends
Sleep(c) ==
    /\ pc[c] = "sleep"
    /\ pc' = [pc EXCEPT ![c] = "fetch"]
    /\ UNCHANGED <<fn, args, attempt, shown, result, log, lastExc,
                   last_error_message, last_error_details, expirations,
                   dateIdx, all_options, fetched>>

\* lines 44-45 / 135-136 raise; line 75 / 185: error_str = str(e)
AttemptRaises(c) ==
    /\ pc[c] = "fetch"
    /\ \E e \in CallErrTexts :
          /\ log' = [log EXCEPT ![c] = Append(@, Raise(e))]
          /\ lastExc' = [lastExc EXCEPT ![c] = e]
    /\ pc' = [pc EXCEPT ![c] = "store_message"]
    /\ UNCHANGED <<fn, args, attempt, shown, result, last_error_message,
                   last_error_details, expirations, dateIdx, all_options, fetched>>

\* lines 44-73: stock.info answers
StockAnswers(c) ==
    /\ pc[c] = "fetch"
    /\ fn[c] = "get_stock_info"
    /\ \E info \in CallInfos :
          /\ log' = [log EXCEPT ![c] = Append(@, Answer(StockResult(args[c].ticker, info)))]
          /\ result' = [result EXCEPT ![c] = StockResult(args[c].ticker, info)]
    /\ pc' = [pc EXCEPT ![c] = "done"]
    /\ UNCHANGED <<fn, args, attempt, shown, lastExc, last_error_message,
                   last_error_details, expirations, dateIdx, all_options, fetched>>

\* the value of lines 137-182 for the frames collected
ChainValue(ticker, frames) ==
    IF frames = None
    THEN ErrorResult("No options expirations found for", ticker,
                     "No options data available for this ticker symbol.", <<>>)
    ELSE ChainResultOf(ticker, frames)

\* lines 135-182: stock.options and the dates answer (a date that raises is
\* skipped inside the loop and stores nothing)
ChainAnswers(c) ==
    /\ pc[c] = "fetch"
    /\ fn[c] = "get_options_chain"
    /\ \E frames \in CallFrames :
          /\ log' = [log EXCEPT ![c] = Append(@, Answer(ChainValue(args[c].ticker, frames)))]
          /\ result' = [result EXCEPT ![c] = ChainValue(args[c].ticker, frames)]
    /\ pc' = [pc EXCEPT ![c] = "done"]
    /\ UNCHANGED <<fn, args, attempt, shown, lastExc, last_error_message,
                   last_error_details, expirations, dateIdx, all_options, fetched>>

\* line 78 / 188
StoreMessage(c) ==
    /\ pc[c] = "store_message"
    /\ last_error_message' = ErrorSummary(lastExc[c])
    /\ pc' = [pc EXCEPT ![c] = "store_details"]
    /\ UNCHANGED <<fn, args, attempt, shown, result, log, lastExc,
                   last_error_details, expirations, dateIdx, all_options, fetched>>

\* line 79 / 189
StoreDetails(c) ==
    /\ pc[c] = "store_details"
    /\ last_error_details' = lastExc[c]
    /\ pc' = [pc EXCEPT ![c] = "classify"]
    /\ UNCHANGED <<fn, args, attempt, shown, result, log, lastExc,
                   last_error_message, expirations, dateIdx, all_options, fetched>>

\* variant: the returned error is built from the global last_error_details
Classify_FromGlobal(c) ==
    /\ pc[c] = "classify"
    /\ IF IsRateLimit(lastExc[c])
       THEN IF attempt[c] = args[c].max_retries - 1
            THEN /\ pc' = [pc EXCEPT ![c] = "done"]
                 /\ result' = [result EXCEPT ![c] =
                                  RateLimitedResult(fn[c], last_error_details)]
                 /\ UNCHANGED attempt
            ELSE /\ pc' = [pc EXCEPT ![c] = "for"]
                 /\ attempt' = [attempt EXCEPT ![c] = @ + 1]
                 /\ UNCHANGED result
       ELSE /\ pc' = [pc EXCEPT ![c] = "done"]
            /\ result' = [result EXCEPT ![c] =
                             FailedResult(fn[c], args[c].ticker, last_error_details)]
            /\ UNCHANGED attempt
    /\ UNCHANGED <<fn, args, shown, log, lastExc, last_error_message,
                   last_error_details, expirations, dateIdx, all_options, fetched>>

\* lines 82-100 / 192-213: return or continue, from the local error_str
Classify(c) ==
    /\ pc[c] = "classify"
    /\ IF IsRateLimit(lastExc[c])
       THEN IF attempt[c] = args[c].max_retries - 1
            THEN /\ pc' = [pc EXCEPT ![c] = "done"]
                 /\ result' = [result EXCEPT ![c] =
                                  RateLimitedResult(fn[c], lastExc[c])]
                 /\ UNCHANGED attempt
            ELSE /\ pc' = [pc EXCEPT ![c] = "for"]
                 /\ attempt' = [attempt EXCEPT ![c] = @ + 1]
                 /\ UNCHANGED result
       ELSE /\ pc' = [pc EXCEPT ![c] = "done"]
            /\ result' = [result EXCEPT ![c] =
                             FailedResult(fn[c], args[c].ticker, lastExc[c])]
            /\ UNCHANGED attempt
    /\ UNCHANGED <<fn, args, shown, log, lastExc, last_error_message,
                   last_error_details, expirations, dateIdx, all_options, fetched>>

\* call c has returned: its frame is dropped, the globals stay
ReturnCall(c) ==
    /\ pc[c] = "done"
    /\ fn' = [fn EXCEPT ![c] = "none"]
    /\ args' = [args EXCEPT ![c] = NoArgs]
    /\ pc' = [pc EXCEPT ![c] = "idle"]
    /\ attempt' = [attempt EXCEPT ![c] = 0]
    /\ shown' = [shown EXCEPT ![c] = NoShown]
    /\ result' = [result EXCEPT ![c] = NoResult]
    /\ log' = [log EXCEPT ![c] = <<>>]
    /\ lastExc' = [lastExc EXCEPT ![c] = <<>>]
    /\ UNCHANGED <<last_error_message, last_error_details, expirations,
                   dateIdx, all_options, fetched>>

NextInterleaved ==
    \E c \in Calls :
        \/ EnterCall(c)
        \/ NextIteration(c)
        \/ ShowMessage(c)
        \/ ShowDetails(c)
        \/ Sleep(c)
        \/ AttemptRaises(c)
        \/ StockAnswers(c)
        \/ ChainAnswers(c)
        \/ StoreMessage(c)
        \/ StoreDetails(c)
        \/ Classify(c)
        \/ ReturnCall(c)

SpecInterleaved == InitInterleaved /\ [][NextInterleaved]_vars

\* C22: when two fetch calls run interleaved, the summary and detail shown
\* in the progress update of a call are those of the failed attempt of that
\* same call that came before it, never those of the other call
C22_OwnError ==
    \A c \in Calls :
        pc[c] = "sleep" /\ shown[c] # NoShown =>
            /\ shown[c].message.body = ListedFirst100(lastExc[c])
            /\ shown[c].details = lastExc[c]

\* the value call c returns, from its arguments and the outcomes of its own
\* attempts alone
ReturnsFromOwnOutcomes(c) ==
    LET last == log[c][Len(log[c])]
    IN  /\ log[c] # <<>>
        /\ Len(log[c]) <= args[c].max_retries
        /\ \A k \in 1..(Len(log[c]) - 1) :
              log[c][k].kind = "raise" /\ log[c][k].text \in RateLimitTexts
        /\ IF last.kind = "answer" THEN result[c] = last.value
           ELSE IF last.text \in RateLimitTexts
           THEN /\ Len(log[c]) = args[c].max_retries
                /\ result[c].kind = "error"
                /\ result[c].error = RateLimitMessage(fn[c])
                /\ result[c].arg = ListedCode(last.text)
                /\ result[c].text = last.text
           ELSE /\ result[c].kind = "error"
                /\ result[c].error = FailedMessage(fn[c])
                /\ result[c].arg = (IF fn[c] = "get_stock_info" THEN args[c].ticker ELSE "")
                /\ result[c].text = last.text

\* C23: the value a fetch call returns depends only on its arguments and on
\* the provider outcomes of its own attempts, whatever last_error_message
\* and last_error_details hold when it starts and whatever another
\* interleaved call writes to them
C23_ResultIndependent ==
    \A c \in Calls : pc[c] = "done" => ReturnsFromOwnOutcomes(c)

\* call 1 returns its own rate-limit error while the globals hold the error
\* the other call stored after it
C23_Witness ==
    /\ pc[1] = "done"
    /\ args[1].max_retries = 2
    /\ Len(log[1]) = 2
    /\ result[1].text = E_TMR503
    /\ result[1].arg = "503"
    /\ last_error_details = E_Timeout
    /\ last_error_message.body.toks = E_Timeout
    /\ lastExc[2] = E_Timeout
    /\ pc[2] = "classify"

----------------------------------------------------------------------------
(* C24: the writes of the last error, one call at a time *)

\* the step ends with an exception caught by the outer handler
CaughtStep ==
    /\ Len(log') > Len(log)
    /\ log'[Len(log')].e = "raise"

\* ... and it was raised by the provider attempt of the iteration
ProviderCaughtStep == CaughtStep /\ log'[Len(log')].src = "provider"

\* both globals hold the same error, or none
StoredTogether ==
    \/ last_error_message = NoSummary /\ last_error_details = <<>>
    \/ /\ last_error_details # <<>>
       /\ last_error_message = [prefix |-> "Yahoo Finance API Error: ",
                                body |-> ListedFirst100(last_error_details),
                                suffix |-> "..."]

\* C24 as stated: the two globals are written only when a provider attempt
\* raises, both together from the same error, and every other step leaves
\* them unchanged
C24_ProviderRaiseOnly ==
    [](StoredTogether) /\
    [][ /\ ProviderCaughtStep => last_error_details' = lastExc'
        /\ ~ProviderCaughtStep => UNCHANGED <<last_error_message, last_error_details>>
      ]_vars

\* C24: the two globals are written only when the outer handler catches an
\* exception (of the provider attempt, of the sleep or of the status
\* placeholder), both together from that error; every other step - an
\* answer, an error return without exception, the error of one date - leaves
\* them unchanged, so they are never cleared
C24_WrittenOnCatch ==
    [](StoredTogether) /\
    [][ /\ CaughtStep => (last_error_details' = lastExc' /\ lastExc' # <<>>)
        /\ ~CaughtStep => UNCHANGED <<last_error_message, last_error_details>>
      ]_vars

\* a call has returned a quote at its first attempt and the globals still
\* hold the error an earlier call failed with
C24_Witness ==
    /\ fn = "get_stock_info"
    /\ pc = "done"
    /\ result.kind = "quote"
    /\ EventIdx("raise") = {}
    /\ lastExc = <<>>
    /\ last_error_details = E_TMR503
    /\ last_error_message.body.cut = 72

----------------------------------------------------------------------------
(* C25 *)

\* C25: {error: 'Maximum retries exceeded'} is returned only when
\* max_retries <= 0, and then the call makes no provider attempt, no sleep
\* and no progress update; for max_retries >= 1 a call returns from inside
\* the loop, with a success or a more specific error
C25_GenericOnlyWithoutAttempts ==
    (fn # "none" /\ pc = "done") =>
        /\ result.error = "Maximum retries exceeded" <=> args.max_retries <= 0
        /\ args.max_retries <= 0 =>
              /\ result.kind = "error"
              /\ log = <<>>
              /\ shown = NoUpdate
              /\ attempt = 0
        /\ args.max_retries >= 1 =>
              /\ result.kind \in {"quote", "chain", "error"}
              /\ attempt < args.max_retries
              /\ NAttempts + Cardinality(EventIdx("raise")) >= 1

\* a call with max_retries = 0 has returned the generic error
C25_Witness ==
    /\ fn = "get_options_chain"
    /\ pc = "done"
    /\ args.max_retries = 0
    /\ result.error = "Maximum retries exceeded"
    /\ log = <<>>
    /\ last_error_details = E_TMR

\* a call with max_retries = 3 has returned the rate-limit error from its
\* last iteration
C25_WitnessLoop ==
    /\ fn = "get_stock_info"
    /\ pc = "done"
    /\ args.max_retries = 3
    /\ attempt = 2
    /\ NAttempts = 3
    /\ result.error = RateLimitMessage(fn)

====
